---------------------------- MODULE Spec2Model ----------------------------
(***************************************************************************)
(* ImmuKV: an immutable key-value store over a versioned object store.     *)
(* The model covers the log engine of src/python/src/immukv/client.py:     *)
(* the two-phase write (pre-flight repair, conditional log put, key-object *)
(* put), the point read with its periodic repair pass, and the hash chain. *)
(* Every backend call of a handler is one atomic step of the client that   *)
(* issues it; clients interleave freely between their backend calls.       *)
(***************************************************************************)
EXTENDS Integers, Sequences, FiniteSets, TLC

(* ------------------------------ bounds -------------------------------- *)


\* Entries of the log a verification starts from, and operations of its run.
MaxVersionsV == 3
MaxOpsV == 2

\* Operations of a run in which clients are derived and closed.
MaxOpsC == 3

\* Calls of the log engine in a run of concurrent delete_file calls.
MaxOpsD == 5
\* Operations of a run that reads the log back.
MaxOpsLog == 4

\* Calls of the runs in which time passes beside a read-only or a demoted
\* client (SpecT).
MaxOpsT == 3
\* Calls of the runs that read the history of a key with several versions
\* (SpecH), and the most versions the key's mirror starts with.
MaxOpsH == 3
MaxVersionsH == 3
\* Operations (set or get calls) started over a whole run.
MaxOps == 2
\* Backend failures and cancellations injected over a whole run.
MaxFaults == 1
\* The same two budgets of the runs with repeated failures (SpecF).
MaxOpsF == 3
MaxFaultsF == 2
\* Last value of the wall clock (model time units).
MaxTime == 2
\* Calls of the runs with queries and a read-only or strict client (SpecQ).
MaxOpsQ == 3
\* Calls of the runs that list a populated bucket (SpecList), and the
\* largest limit passed to list_keys.
MaxOpsList == 2
MaxLimit == 3
\* Calls of the log engine, and failures, in the runs of the file
\* extension (SpecFiles).
MaxOpsFiles == 4
MaxFaultsFiles == 1
\* Objects in one page of a backend listing (1000 in the real backend).
MaxPage == 2
\* Set calls of the runs with one writer racing another's repeated sets
\* (SpecR): enough for the racing writer to lose max_retries times.
MaxOpsR == 11

\* Two clients sharing bucket and prefix: A was built with the identity
\* codec, B is a with_codec view of A with a narrow, lossy codec.
Clients == {"A", "B"}
Keys == {"x", "y"}

(* --------------------------- optional values -------------------------- *)

\* Python's None; Optional[T] values are None or Some(t).
None == <<>>
Some(v) == <<v>>
The(o) == o[1]

(* ------------------------------ the codecs ---------------------------- *)

\* JSON values are objects (records). The wide shape carries more fields
\* than the narrow one.
WideValues == {[temp |-> 20, wind |-> 5]}
NarrowValues == {[temp |-> 99]}

\* The values a client of the given codec hands to set.
UserValues(codec) == IF codec = "identity" THEN WideValues ELSE NarrowValues

\* What a decoder call that raised leaves in place of its result.
DecodeRaised == [raised |-> "ValueError"]

\* is_deleted_file: isinstance(value, DeletedFileMetadata) and value.deleted.
is_deleted_file(value) == value.type = "DeletedFileMetadata" /\ value.deleted

\* file_value_decoder: the FileValue of a JSON object of the log.
file_value_decoder(json) ==
    IF "deleted" \in DOMAIN json /\ json.deleted = TRUE
    THEN [type |-> "DeletedFileMetadata",
          s3_key |-> json.s3_key,
          deleted_version_id |-> json.deleted_version_id,
          deleted |-> TRUE]
    ELSE [type |-> "FileMetadata",
          s3_key |-> json.s3_key,
          s3_version_id |-> json.s3_version_id,
          content_hash |-> json.content_hash,
          content_length |-> json.content_length,
          content_type |-> json.content_type,
          user_metadata |-> IF "user_metadata" \in DOMAIN json
                            THEN Some(json.user_metadata) ELSE None]

\* file_value_encoder: user_metadata is only written when there is one.
file_value_encoder(value) ==
    IF is_deleted_file(value)
    THEN [deleted |-> TRUE,
          s3_key |-> value.s3_key,
          deleted_version_id |-> value.deleted_version_id]
    ELSE LET result == [s3_key |-> value.s3_key,
                        s3_version_id |-> value.s3_version_id,
                        content_hash |-> value.content_hash,
                        content_length |-> value.content_length,
                        content_type |-> value.content_type]
         IN IF value.user_metadata # None
            THEN result @@ [user_metadata |-> The(value.user_metadata)]
            ELSE result

\* identity_decoder / strict_narrow_a_decoder / lossy_narrow_decoder, and
\* the decoder of the file extension
value_decoder(codec, json) ==
    IF codec = "identity" THEN json
    ELSE IF codec = "strict"
         THEN IF DOMAIN json = {"temp"} THEN [temp |-> json.temp] ELSE DecodeRaised
         ELSE IF codec = "file" THEN file_value_decoder(json)
         ELSE [temp |-> json.temp]

\* identity_encoder / lossy_narrow_encoder
value_encoder(codec, v) ==
    IF codec = "identity" THEN v
    ELSE IF codec = "file" THEN file_value_encoder(v)
    ELSE [temp |-> v.temp]

(* ------------------------- canonical JSON, hash ----------------------- *)

\* json.dumps(sort_keys, minimal separators): the bytes are determined by
\* the dictionary alone, whatever the insertion order of its keys.
dumps_canonical(data) == [json |-> data]
read_body_as_json(body) == body.json

\* Fields whose Python value may be None (JSON null or an unset Optional).
NullableFields == {"value", "previous_version_id", "previous_key_object_etag"}

\* A serialiser that keeps the null fields.
strip_nothing(data) == data

strip_none_values(data) ==
    [f \in {g \in DOMAIN data : ~(g \in NullableFields /\ data[g] = None)}
        |-> data[f]]

get_optional_str(data, key) == IF key \in DOMAIN data THEN data[key] ELSE None

hash_genesis == [sha256 |-> [genesis |-> TRUE]]

hash_compute(data) == [sha256 |-> dumps_canonical(data)]

sequence_initial == -1
sequence_next(seq) == seq + 1

\* self._calculate_hash: exactly the five hashed fields.
LogEntryForHash(sequence, key, value, timestamp_ms, previous_hash) ==
    [sequence |-> sequence, key |-> key, value |-> value,
     timestamp_ms |-> timestamp_ms, previous_hash |-> previous_hash]

(* ------------------------------ the backend --------------------------- *)

\* An object is the sequence of its versions' bodies, oldest first; the
\* version id of a version is its position, the current version is the
\* last one. The ETag of a version is the MD5 of its body.
\* A backend whose ETag does not tell one body from another.
ETagOfAny(body) == [md5 |-> [json |-> "any"]]

ETagOf(body) == [md5 |-> body]

Exists(versions) == versions # <<>>
Current(versions) == versions[Len(versions)]
CurrentETag(versions) == ETagOf(Current(versions))

\* A backend that ignores the conditions of a put.
PutPassesAlways(versions, if_match, if_none_match) == TRUE

\* Whether a conditional put passes its precondition.
PutPasses(versions, if_match, if_none_match) ==
    IF if_match # None
    THEN Exists(versions) /\ CurrentETag(versions) = The(if_match)
    ELSE IF if_none_match THEN ~Exists(versions) ELSE TRUE

\* A client that sends IfMatch when it holds an etag and no condition at
\* all when it holds none.
CondPutIfMatchOnly(versions, etag) == PutPasses(versions, etag, FALSE)

\* The condition the client sends: IfMatch with the etag it holds, or
\* IfNoneMatch "*" when it holds none.
CondPutPasses(versions, etag) == PutPasses(versions, etag, etag = None)

PutObject(versions, body) == Append(versions, body)

\* A get that answers with the ETag of the object's first version.
GetObjectStaleETag(versions) ==
    [Body |-> Current(versions), ETag |-> ETagOf(versions[1]),
     VersionId |-> Len(versions)]

\* The response to a get of the current version of an existing object.
GetObject(versions) ==
    [Body |-> Current(versions), ETag |-> CurrentETag(versions),
     VersionId |-> Len(versions)]

VARIABLES
    logVersions,    \* versions of <prefix>_log.json
    keyVersions,    \* versions of <prefix>keys/<key>.json, per key
    clock,          \* time.time() in model units
    config,         \* per client: read_only and the codec it was built with
    lifecycle,      \* the background loop the clients share, per client its
                    \* _owns_loop (None before the client exists), and the
                    \* clients that have called close
    fields,         \* per client: _last_repair_check_ms, _can_write, _latest_orphan_status
    pc,             \* per client: the backend call it is about to issue
    loc,            \* per client: the local variables of the running call
    ret,            \* per client: what its last set and its last get returned,
                    \* and how many of its sets have passed the commit point
    nOps,           \* operations that may still be started
    faults,         \* failures that may still be injected
    fileVersions,   \* versions of <file_prefix><key>, per file object
    fileCall,       \* per client: the running call of its FileClient
    fileRet         \* per client: what its last file call returned, and how
                    \* many set_file calls and uploads it has made

vars == <<logVersions, keyVersions, clock, config, lifecycle, fields, pc, loc, ret, nOps, faults,
          fileVersions, fileCall, fileRet>>

backend == <<logVersions, keyVersions>>

\* The state of the file extension.
fileState == <<fileVersions, fileCall, fileRet>>


(* ------------------------ entries and their forms --------------------- *)

\* Retry budget of the optimistic-locking loop of set.
max_retries == 10

\* A loop that goes round once more than its budget.
HasNextAttemptOffByOne(attempt) == attempt < max_retries

\* for attempt in range(max_retries): whether `continue` starts another attempt.
HasNextAttempt(attempt) == attempt + 1 < max_retries

\* Config.repair_check_interval_ms, in model time units.
repair_check_interval_ms == 1

\* A reading of the log that hands every value to a strict decoder.
raw_entry_from_log_decoded(data, version_id) ==
    [key |-> data.key,
     value |-> value_decoder("strict", data.value),
     timestamp_ms |-> data.timestamp_ms,
     version_id |-> version_id,
     sequence |-> data.sequence,
     previous_version_id |-> get_optional_str(data, "previous_version_id"),
     hash |-> data.hash,
     previous_hash |-> data.previous_hash,
     previous_key_object_etag |-> get_optional_str(data, "previous_key_object_etag")]

\* raw_entry_from_log: the entry of a log version, its value as stored.
raw_entry_from_log(data, version_id) ==
    [key |-> data.key,
     value |-> data.value,
     timestamp_ms |-> data.timestamp_ms,
     version_id |-> version_id,
     sequence |-> data.sequence,
     previous_version_id |-> get_optional_str(data, "previous_version_id"),
     hash |-> data.hash,
     previous_hash |-> data.previous_hash,
     previous_key_object_etag |-> get_optional_str(data, "previous_key_object_etag")]

\* A pre-flight that chains to the head's own predecessor.
LatestLogStateSkewed(response) ==
    LET data == read_body_as_json(response.Body) IN
    [log_etag |-> Some(response.ETag),
     prev_version_id |-> Some(response.VersionId),
     prev_hash |-> data.previous_hash,
     sequence |-> data.sequence]

\* What _get_latest_and_repair reads off the log head, apart from the raw
\* entry it hands to the repair.
LatestLogState(response) ==
    LET data == read_body_as_json(response.Body) IN
    [log_etag |-> Some(response.ETag),
     prev_version_id |-> Some(response.VersionId),
     prev_hash |-> data.hash,
     sequence |-> data.sequence]

\* The same for a log that does not exist yet.
GenesisLogState ==
    [log_etag |-> None,
     prev_version_id |-> None,
     prev_hash |-> hash_genesis,
     sequence |-> sequence_initial]

\* A reader that takes the entry's hash from the wrong field.
entry_from_key_object_mixup(data, codec) ==
    [key |-> data.key,
     value |-> value_decoder(codec, data.value),
     timestamp_ms |-> data.timestamp_ms,
     version_id |-> data.log_version_id,
     sequence |-> data.sequence,
     previous_version_id |-> None,
     hash |-> data.previous_hash,
     previous_hash |-> data.hash,
     previous_key_object_etag |-> None]

\* Entry built from a key object: the value goes through the user decoder,
\* the two infrastructure fields are not stored there.
entry_from_key_object(data, codec) ==
    [key |-> data.key,
     value |-> value_decoder(codec, data.value),
     timestamp_ms |-> data.timestamp_ms,
     version_id |-> data.log_version_id,
     sequence |-> data.sequence,
     previous_version_id |-> None,
     hash |-> data.hash,
     previous_hash |-> data.previous_hash,
     previous_key_object_etag |-> None]

\* Entry synthesised from the cached raw orphan entry (get's fallback).
entry_from_raw(raw, codec) == [raw EXCEPT !.value = value_decoder(codec, raw.value)]

\* A log entry that never records its predecessor's version.
LogEntryDictUnlinked(l) ==
    [sequence |-> l.new_sequence,
     key |-> l.key,
     value |-> l.encoded_value,
     timestamp_ms |-> l.timestamp_ms,
     previous_version_id |-> None,
     previous_hash |-> l.prev_hash,
     hash |-> l.entry_hash,
     previous_key_object_etag |-> l.current_key_etag]

\* The log entry set builds in steps 2-4 from its locals.
LogEntryDict(l) ==
    [sequence |-> l.new_sequence,
     key |-> l.key,
     value |-> l.encoded_value,
     timestamp_ms |-> l.timestamp_ms,
     previous_version_id |-> l.prev_version_id,
     previous_hash |-> l.prev_hash,
     hash |-> l.entry_hash,
     previous_key_object_etag |-> l.current_key_etag]

\* The key object set writes in Phase 2.
key_data(l) ==
    [sequence |-> l.new_sequence,
     key |-> l.key,
     value |-> l.encoded_value,
     timestamp_ms |-> l.timestamp_ms,
     log_version_id |-> l.new_log_version_id,
     hash |-> l.entry_hash,
     previous_hash |-> l.prev_hash]

\* A repair that passes the value through the client's decoder and encoder.
repair_data_recoded(codec, latest_log) ==
    [sequence |-> latest_log.sequence,
     key |-> latest_log.key,
     value |-> value_encoder(codec, value_decoder(codec, latest_log.value)),
     timestamp_ms |-> latest_log.timestamp_ms,
     log_version_id |-> latest_log.version_id,
     hash |-> latest_log.hash,
     previous_hash |-> latest_log.previous_hash]

\* The key object the repair pass writes: the raw log value, no codec.
repair_data(codec, latest_log) ==
    [sequence |-> latest_log.sequence,
     key |-> latest_log.key,
     value |-> latest_log.value,
     timestamp_ms |-> latest_log.timestamp_ms,
     log_version_id |-> latest_log.version_id,
     hash |-> latest_log.hash,
     previous_hash |-> latest_log.previous_hash]

\* An Entry stamped with the time of the return, not of the hashed entry.
SetEntryRestamped(l, key_object_etag) ==
    [key |-> l.key,
     value |-> l.value,
     timestamp_ms |-> clock,
     version_id |-> l.new_log_version_id,
     sequence |-> l.new_sequence,
     previous_version_id |-> l.prev_version_id,
     hash |-> l.entry_hash,
     previous_hash |-> l.prev_hash,
     previous_key_object_etag |-> key_object_etag]

\* The Entry set returns; its last field is the etag Phase 2 obtained.
SetEntry(l, key_object_etag) ==
    [key |-> l.key,
     value |-> l.value,
     timestamp_ms |-> l.timestamp_ms,
     version_id |-> l.new_log_version_id,
     sequence |-> l.new_sequence,
     previous_version_id |-> l.prev_version_id,
     hash |-> l.entry_hash,
     previous_hash |-> l.prev_hash,
     previous_key_object_etag |-> key_object_etag]

\* verify(entry) of a client with the given codec.
verify(codec, entry) ==
    entry.hash = hash_compute(LogEntryForHash(entry.sequence, entry.key,
                                  value_encoder(codec, entry.value),
                                  entry.timestamp_ms, entry.previous_hash))

(* ------------------------------ client state -------------------------- *)

NoLoc == [op |-> "none"]
NoFileCall == [op |-> "none"]
NoFileRet == [result |-> None, verified |-> None, set_files |-> 0, uploads |-> 0]
NoRet == [set |-> None, get |-> None, commits |-> 0, query |-> None]

\* __init__ starts the loop and owns it (self._owns_loop = True); a
\* with_codec view shares it and does not (new_client._owns_loop = False).
Constructed ==
    lifecycle = [loop |-> "running",
                 owns_loop |-> [c \in Clients |-> Some(c = "A")],
                 closed |-> {}]

InitFields ==
    [last_repair_check_ms |-> 0, can_write |-> None, latest_orphan_status |-> None]

\* The cached orphan status; its checked_at stamp is written and never
\* read, and is left out.
NotOrphaned ==
    [is_orphaned |-> FALSE, orphan_key |-> None, orphan_entry |-> None]

\* A status that forgets the entry it was computed for.
OrphanedUnrecorded(latest_log) ==
    [is_orphaned |-> TRUE, orphan_key |-> Some(latest_log.key), orphan_entry |-> None]

Orphaned(latest_log) ==
    [is_orphaned |-> TRUE, orphan_key |-> Some(latest_log.key),
     orphan_entry |-> Some(latest_log)]

\* A client that never stamps the time of its repair pass.
UpdateCachedStateUnstamped(f, l, can_write, orphan_status) ==
    [last_repair_check_ms |-> f.last_repair_check_ms,
     can_write |-> IF can_write # None THEN can_write ELSE f.can_write,
     latest_orphan_status |->
         IF orphan_status # None THEN orphan_status ELSE f.latest_orphan_status]

\* What set and get do with the result of _get_latest_and_repair.
UpdateCachedState(f, l, can_write, orphan_status) ==
    [last_repair_check_ms |-> IF l.op = "set" THEN clock ELSE l.current_time_ms,
     can_write |-> IF can_write # None THEN can_write ELSE f.can_write,
     latest_orphan_status |->
         IF orphan_status # None THEN orphan_status ELSE f.latest_orphan_status]

\* Where the caller of _get_latest_and_repair goes on.
AfterRepairPc(l) == IF l.op = "set" THEN "head" ELSE "read"

\* A repair pass that forgets the configured read-only mode.
SkipsRepairPutUnlessConfigured(c) == fields[c].can_write = Some(FALSE)

\* The repair pass only probes the key object when the client may not write.
SkipsRepairPut(c) == config[c].read_only \/ fields[c].can_write = Some(FALSE)

Returns(c, op, result) ==
    /\ ret' = [ret EXCEPT ![c][op] = Some(result)]
    /\ pc' = [pc EXCEPT ![c] = "idle"]
    /\ loc' = [loc EXCEPT ![c] = NoLoc]

Raises(c, kind) == Returns(c, loc[c].op, [kind |-> kind, key |-> loc[c].key])

\* The return of an Entry whose value came out of the user decoder: the
\* decoder's exception leaves the call in its place.
ReturnsDecoded(c, op, entry) ==
    IF entry.value = DecodeRaised
    THEN Raises(c, "ValueError")
    ELSE Returns(c, op, [kind |-> "Entry", entry |-> entry])

Injects == /\ faults > 0
           /\ faults' = faults - 1

(* -------------------------------- Init -------------------------------- *)

\* An empty bucket and freshly constructed clients.
\* file_s3_key_for_file: the path of a key's file object.
file_s3_key_for_file(key) == <<"files/", key>>

\* No file object, no file call.
NoFiles ==
    /\ fileVersions = [p \in {file_s3_key_for_file(k) : k \in Keys} |-> <<>>]
    /\ fileCall = [c \in Clients |-> NoFileCall]
    /\ fileRet = [c \in Clients |-> NoFileRet]

Fresh ==
    /\ NoFiles
    /\ logVersions = <<>>
    /\ keyVersions = [k \in Keys |-> <<>>]
    /\ clock = 1
    /\ config = [c \in Clients |->
                   [read_only |-> FALSE,
                    codec |-> IF c = "A" THEN "identity" ELSE "lossy"]]
    /\ Constructed
    /\ fields = [c \in Clients |-> InitFields]
    /\ pc = [c \in Clients |-> "idle"]
    /\ loc = [c \in Clients |-> NoLoc]
    /\ ret = [c \in Clients |-> NoRet]

Init ==
    /\ Fresh
    /\ nOps = MaxOps
    /\ faults = MaxFaults

InitF ==
    /\ Fresh
    /\ nOps = MaxOpsF
    /\ faults = MaxFaultsF

(* ------------------------------- set ---------------------------------- *)

\* set(key, value) is called: the read-only check, then the first attempt.
SetCall(c, k, v) ==
    /\ pc[c] = "idle"
    /\ nOps > 0
    /\ nOps' = nOps - 1
    /\ IF config[c].read_only
       THEN /\ ret' = [ret EXCEPT ![c].set = Some([kind |-> "ReadOnlyError"]),
                                   ![c].get = None]
            /\ UNCHANGED <<pc, loc>>
       ELSE /\ ret' = [ret EXCEPT ![c].set = None, ![c].get = None]
            /\ pc' = [pc EXCEPT ![c] = "latest"]
            /\ loc' = [loc EXCEPT ![c] =
                         [op |-> "set", key |-> k, value |-> v, attempt |-> 0,
                          last_error |-> None]]
    /\ UNCHANGED <<backend, clock, config, lifecycle, fileState, fields, faults>>

\* _get_latest_and_repair: the get of the log head. With no log yet the
\* genesis state is returned at once and the caller goes on.
GetLatest(c) ==
    /\ pc[c] = "latest"
    /\ LET l == loc[c] IN
       IF Exists(logVersions)
       THEN LET response == GetObject(logVersions)
                data == read_body_as_json(response.Body)
            IN /\ loc' = [loc EXCEPT ![c] = l @@ LatestLogState(response) @@
                           [latest_entry |-> raw_entry_from_log(data, response.VersionId)]]
               /\ pc' = [pc EXCEPT ![c] = "repair"]
               /\ UNCHANGED fields
       ELSE /\ loc' = [loc EXCEPT ![c] = l @@ GenesisLogState]
            /\ pc' = [pc EXCEPT ![c] = AfterRepairPc(l)]
            /\ fields' = [fields EXCEPT ![c] = UpdateCachedState(@, l, None, None)]
    /\ UNCHANGED <<backend, clock, config, lifecycle, fileState, ret, nOps, faults>>

\* The get of the log head fails with a backend error: it propagates.
GetLatestFails(c) ==
    /\ pc[c] = "latest"
    /\ Injects
    /\ Raises(c, "BackendError")
    /\ UNCHANGED <<backend, clock, config, lifecycle, fileState, fields, nOps>>

\* _repair_orphan: one backend call, a head of the key object when the
\* client may not write, a conditional put of the key object otherwise.
RepairOrphan(c) ==
    /\ pc[c] = "repair"
    /\ LET l == loc[c]
           latest_log == l.latest_entry
           kv == keyVersions[latest_log.key]
           body == dumps_canonical(repair_data(config[c].codec, latest_log))
       IN /\ IF SkipsRepairPut(c)
             THEN /\ UNCHANGED keyVersions
                  /\ fields' = [fields EXCEPT ![c] =
                        IF Exists(kv)
                        THEN UpdateCachedState(@, l, @.can_write, Some(NotOrphaned))
                        ELSE UpdateCachedState(@, l, Some(FALSE),
                                               Some(Orphaned(latest_log)))]
             ELSE /\ keyVersions' =
                        IF CondPutPasses(kv, latest_log.previous_key_object_etag)
                        THEN [keyVersions EXCEPT ![latest_log.key] = PutObject(kv, body)]
                        ELSE keyVersions
                  /\ fields' = [fields EXCEPT ![c] =
                        UpdateCachedState(@, l, Some(TRUE), Some(NotOrphaned))]
          /\ pc' = [pc EXCEPT ![c] = AfterRepairPc(l)]
    /\ UNCHANGED <<logVersions, clock, config, lifecycle, fileState, loc, ret, nOps, faults>>

\* The repair put is refused with AccessDenied: the client caches the
\* log head as its orphan and that it cannot write.
RepairDenied(c) ==
    /\ pc[c] = "repair"
    /\ ~SkipsRepairPut(c)
    /\ Injects
    /\ fields' = [fields EXCEPT ![c] =
           UpdateCachedState(@, loc[c], Some(FALSE),
                             Some(Orphaned(loc[c].latest_entry)))]
    /\ pc' = [pc EXCEPT ![c] = AfterRepairPc(loc[c])]
    /\ UNCHANGED <<backend, clock, config, lifecycle, fileState, loc, ret, nOps>>

\* The backend call of the repair pass fails otherwise: a failed put is
\* logged and the caller goes on; a failed head propagates.
RepairFails(c) ==
    /\ pc[c] = "repair"
    /\ Injects
    /\ IF SkipsRepairPut(c)
       THEN /\ Raises(c, "BackendError")
            /\ UNCHANGED fields
       ELSE /\ fields' = [fields EXCEPT ![c] = UpdateCachedState(@, loc[c], None, None)]
            /\ pc' = [pc EXCEPT ![c] = AfterRepairPc(loc[c])]
            /\ UNCHANGED <<loc, ret>>
    /\ UNCHANGED <<backend, clock, config, lifecycle, fileState, nOps>>

\* Steps 1-4 of an attempt: head the key object, then build the entry.
SetHead(c) ==
    /\ pc[c] = "head"
    /\ LET l == loc[c]
           kv == keyVersions[l.key]
           new_sequence == sequence_next(l.sequence)
           encoded_value == value_encoder(config[c].codec, l.value)
           timestamp_ms == clock
       IN loc' = [loc EXCEPT ![c] = l @@
                   [current_key_etag |-> IF Exists(kv) THEN Some(CurrentETag(kv)) ELSE None,
                    new_sequence |-> new_sequence,
                    timestamp_ms |-> timestamp_ms,
                    encoded_value |-> encoded_value,
                    entry_hash |-> hash_compute(LogEntryForHash(new_sequence, l.key,
                                       encoded_value, timestamp_ms, l.prev_hash))]]
    /\ pc' = [pc EXCEPT ![c] = "put_log"]
    /\ UNCHANGED <<backend, clock, config, lifecycle, fileState, fields, ret, nOps, faults>>

SetHeadFails(c) ==
    /\ pc[c] = "head"
    /\ Injects
    /\ Raises(c, "BackendError")
    /\ UNCHANGED <<backend, clock, config, lifecycle, fileState, fields, nOps>>

\* Step 5, Phase 1: the conditional put of the log. A PreconditionFailed
\* restarts the attempt from pre-flight while the budget lasts.
SetPutLog(c) ==
    /\ pc[c] = "put_log"
    /\ LET l == loc[c]
           body == dumps_canonical(strip_none_values(LogEntryDict(l)))
       IN IF CondPutPasses(logVersions, l.log_etag)
          THEN /\ logVersions' = PutObject(logVersions, body)
               /\ loc' = [loc EXCEPT ![c] =
                            l @@ [new_log_version_id |-> Len(logVersions) + 1]]
               /\ pc' = [pc EXCEPT ![c] = "put_key"]
               /\ ret' = [ret EXCEPT ![c].commits = @ + 1]
          ELSE /\ UNCHANGED logVersions
               /\ IF HasNextAttempt(l.attempt)
                  THEN /\ loc' = [loc EXCEPT ![c] =
                                    [op |-> "set", key |-> l.key, value |-> l.value,
                                     attempt |-> l.attempt + 1,
                                     last_error |-> Some("PreconditionFailed")]]
                       /\ pc' = [pc EXCEPT ![c] = "latest"]
                       /\ UNCHANGED ret
                  ELSE Returns(c, "set",
                           [kind |-> "RetriesExhausted", key |-> l.key,
                            last_error |-> Some("PreconditionFailed")])
    /\ UNCHANGED <<keyVersions, clock, config, lifecycle, fileState, fields, nOps, faults>>

SetPutLogFails(c) ==
    /\ pc[c] = "put_log"
    /\ Injects
    /\ Raises(c, "BackendError")
    /\ UNCHANGED <<backend, clock, config, lifecycle, fileState, fields, nOps>>

\* A Phase 2 that puts the key object without a condition.
SetPutKeyUnconditional(c) ==
    /\ pc[c] = "put_key"
    /\ LET l == loc[c]
           body == dumps_canonical(key_data(l))
       IN /\ keyVersions' = [keyVersions EXCEPT ![l.key] = PutObject(@, body)]
          /\ Returns(c, "set", [kind |-> "Entry", entry |-> SetEntry(l, Some(ETagOf(body)))])
    /\ UNCHANGED <<logVersions, clock, config, lifecycle, fileState, fields, nOps, faults>>

\* Phase 2: the conditional put of the key object, then the return.
SetPutKey(c) ==
    /\ pc[c] = "put_key"
    /\ LET l == loc[c]
           kv == keyVersions[l.key]
           body == dumps_canonical(key_data(l))
           passes == CondPutPasses(kv, l.current_key_etag)
       IN /\ keyVersions' = IF passes
                            THEN [keyVersions EXCEPT ![l.key] = PutObject(kv, body)]
                            ELSE keyVersions
          /\ Returns(c, "set",
                [kind |-> "Entry",
                 entry |-> SetEntry(l, IF passes THEN Some(ETagOf(body)) ELSE None)])
    /\ UNCHANGED <<logVersions, clock, config, lifecycle, fileState, fields, nOps, faults>>

\* A Phase 2 whose failure propagates to the caller.
SetPutKeyFailsLoudly(c) ==
    /\ pc[c] = "put_key"
    /\ Injects
    /\ Raises(c, "BackendError")
    /\ UNCHANGED <<backend, clock, config, lifecycle, fileState, fields, nOps>>

\* The Phase-2 put fails with any other error: logged and swallowed.
SetPutKeyFails(c) ==
    /\ pc[c] = "put_key"
    /\ Injects
    /\ Returns(c, "set", [kind |-> "Entry", entry |-> SetEntry(loc[c], None)])
    /\ UNCHANGED <<backend, clock, config, lifecycle, fileState, fields, nOps>>

\* The running set is cancelled between Phase 1 and Phase 2. (Cancelled at
\* an earlier call it has had no effect, like a set whose call failed.)
Cancel(c) ==
    /\ pc[c] = "put_key"
    /\ Injects
    /\ Raises(c, "Cancelled")
    /\ UNCHANGED <<backend, clock, config, lifecycle, fileState, fields, nOps>>

(* ------------------------------- get ---------------------------------- *)

\* get(key) is called: the repair pass runs when the interval has elapsed
\* and the client is not known to be unable to write.
GetCall(c, k) ==
    /\ pc[c] = "idle"
    /\ nOps > 0
    /\ nOps' = nOps - 1
    /\ LET current_time_ms == clock
           time_since_last_check == current_time_ms - fields[c].last_repair_check_ms
       IN /\ loc' = [loc EXCEPT ![c] =
                       [op |-> "get", key |-> k, current_time_ms |-> current_time_ms]]
          /\ pc' = [pc EXCEPT ![c] =
                       IF /\ time_since_last_check >= repair_check_interval_ms
                          /\ ~SkipsRepairPut(c)
                       THEN "latest" ELSE "read"]
    /\ ret' = [ret EXCEPT ![c].get = None]
    /\ UNCHANGED <<backend, clock, config, lifecycle, fileState, fields, faults>>

\* The read of the key object, with the orphan fallback on NotFound.
GetRead(c) ==
    /\ pc[c] = "read"
    /\ LET l == loc[c]
           kv == keyVersions[l.key]
           status == fields[c].latest_orphan_status
       IN IF Exists(kv)
          THEN ReturnsDecoded(c, "get",
                   entry_from_key_object(read_body_as_json(Current(kv)),
                                         config[c].codec))
          ELSE IF /\ status # None
                  /\ The(status).is_orphaned
                  /\ The(status).orphan_key = Some(l.key)
                  /\ The(status).orphan_entry # None
                  /\ SkipsRepairPut(c)
               THEN ReturnsDecoded(c, "get",
                        entry_from_raw(The(The(status).orphan_entry),
                                       config[c].codec))
               ELSE Raises(c, "KeyNotFoundError")
    /\ UNCHANGED <<backend, clock, config, lifecycle, fileState, fields, nOps, faults>>

GetReadFails(c) ==
    /\ pc[c] = "read"
    /\ Injects
    /\ Raises(c, "BackendError")
    /\ UNCHANGED <<backend, clock, config, lifecycle, fileState, fields, nOps>>

(* --------------------------- reading the log -------------------------- *)

\* list_object_versions of one object: its version ids, newest first,
\* after the marker when one is given. The model's histories fit in one
\* backend page.
\* A listing that starts at the marker itself.
ListObjectVersionsInclusive(versions, version_id_marker) ==
    LET top == IF version_id_marker = None THEN Len(versions)
               ELSE The(version_id_marker)
    IN [i \in 1..top |-> top + 1 - i]

ListObjectVersions(versions, version_id_marker) ==
    LET top == IF version_id_marker = None THEN Len(versions)
               ELSE The(version_id_marker) - 1
    IN [i \in 1..top |-> top + 1 - i]

\* The loop "append; return when limit is set and len(entries) >= limit"
\* over the listed items, entries holding `already` items at its start.
TakeWithLimit(items, limit, already) ==
    LET wanted == IF The(limit) - already > 1 THEN The(limit) - already ELSE 1
    IN IF limit = None \/ Len(items) <= wanted THEN items
       ELSE SubSeq(items, 1, wanted)

\* _raw_log_entries(limit): newest first, values as stored.
raw_log_entries(limit) ==
    LET ids == ListObjectVersions(logVersions, None) IN
    TakeWithLimit([i \in 1..Len(ids) |->
                      raw_entry_from_log(read_body_as_json(logVersions[ids[i]]), ids[i])],
                  limit, 0)

\* A verification that hashes the value after a round trip through a
\* narrowing codec in place of the value as stored.
verify_raw_round_trip(entry) ==
    entry.hash = hash_compute(LogEntryForHash(entry.sequence, entry.key,
                                  value_encoder("lossy", value_decoder("lossy", entry.value)),
                                  entry.timestamp_ms, entry.previous_hash))

\* _verify_raw: the hash recomputed over the value as stored.
verify_raw(entry) ==
    entry.hash = hash_compute(LogEntryForHash(entry.sequence, entry.key, entry.value,
                                  entry.timestamp_ms, entry.previous_hash))

verify_log_chain(limit) ==
    LET entries == raw_log_entries(limit) IN
    /\ \A i \in 1..Len(entries) : verify_raw(entries[i])
    /\ \A i \in 1..(Len(entries) - 1) : entries[i].previous_hash = entries[i + 1].hash

\* entry_from_log: the Entry of a log version, its value decoded.
entry_from_log(data, version_id, codec) ==
    [key |-> data.key,
     value |-> value_decoder(codec, data.value),
     timestamp_ms |-> data.timestamp_ms,
     version_id |-> version_id,
     sequence |-> data.sequence,
     previous_version_id |-> get_optional_str(data, "previous_version_id"),
     hash |-> data.hash,
     previous_hash |-> data.previous_hash,
     previous_key_object_etag |-> get_optional_str(data, "previous_key_object_etag")]

\* A listing of the log versions that comes back oldest first.
log_entries_oldest_first(codec, before_version_id, limit) ==
    LET ids == ListObjectVersions(logVersions, before_version_id) IN
    TakeWithLimit([i \in 1..Len(ids) |->
                      entry_from_log(read_body_as_json(logVersions[ids[Len(ids) + 1 - i]]),
                                     ids[Len(ids) + 1 - i], codec)],
                  limit, 0)

\* log_entries(before_version_id, limit): newest first.
log_entries(codec, before_version_id, limit) ==
    LET ids == ListObjectVersions(logVersions, before_version_id) IN
    TakeWithLimit([i \in 1..Len(ids) |->
                      entry_from_log(read_body_as_json(logVersions[ids[i]]), ids[i], codec)],
                  limit, 0)

\* history(key, before_version_id, limit) of a client with the given
\* cached orphan status: the entries, newest first, and the cursor.
history(status, codec, key, before_version_id, limit) ==
    LET kv == keyVersions[key]
        prepend_orphan ==
            /\ before_version_id = None
            /\ status # None
            /\ The(status).is_orphaned
            /\ The(status).orphan_key = Some(key)
            /\ The(status).orphan_entry # None
        first == IF prepend_orphan
                 THEN <<entry_from_raw(The(The(status).orphan_entry), codec)>>
                 ELSE <<>>
        ids == ListObjectVersions(kv, before_version_id)
        taken == TakeWithLimit([i \in 1..Len(ids) |->
                                   entry_from_key_object(read_body_as_json(kv[ids[i]]),
                                                         codec)],
                               limit, Len(first))
        last_key_version_id == IF Len(taken) > 0 THEN Some(ids[Len(taken)]) ELSE None
        at_limit == /\ limit # None
                    /\ Len(taken) > 0
                    /\ Len(first) + Len(taken) >= The(limit)
    IN [entries |-> first \o taken,
        cursor |-> IF at_limit \/ ~prepend_orphan THEN last_key_version_id ELSE None]

\* A read-only query returns its result, a record of its own shape for
\* each operation: a decoder exception among the entries it
\* built leaves the call in place of the result.
Answers(c, op, entries, result) ==
    /\ pc[c] = "idle"
    /\ nOps > 0
    /\ nOps' = nOps - 1
    /\ ret' = [ret EXCEPT ![c].query =
                 Some(IF \E i \in 1..Len(entries) : entries[i].value = DecodeRaised
                      THEN [op |-> op, kind |-> "ValueError"]
                      ELSE [op |-> op, kind |-> "Result", result |-> result])]
    /\ UNCHANGED <<backend, clock, config, lifecycle, fileState, fields, pc, loc, faults>>

VerifyLogChain(c, limit) ==
    Answers(c, "verify_log_chain", <<>>, [valid |-> verify_log_chain(limit)])

LogEntries(c, before_version_id, limit) ==
    LET entries == log_entries(config[c].codec, before_version_id, limit)
    IN Answers(c, "log_entries", entries, [entries |-> entries])

History(c, k, before_version_id, limit) ==
    LET h == history(fields[c].latest_orphan_status, config[c].codec, k,
                     before_version_id, limit)
    IN Answers(c, "history", h.entries,
               [key |-> k, before |-> before_version_id, limit |-> limit,
                entries |-> h.entries, cursor |-> h.cursor])

(* ---------------------------- listing keys --------------------------- *)

\* The bytes of the key names in use (UTF-8, here ASCII codes).
KeyChars ==
    ("x" :> <<120>>) @@ ("y" :> <<121>>) @@ ("a" :> <<97>>) @@
    ("a-b" :> <<97, 45, 98>>) @@ ("b" :> <<98>>)

\* ".json"
JsonSuffix == <<46, 106, 115, 111, 110>>

\* The path of a key's mirror below the common prefix "<s3_prefix>keys/".
S3KeyPath(k) == KeyChars[k] \o JsonSuffix

\* The backend's listing order: byte-wise lexicographic.
BytesLess(s, t) ==
    \E i \in 1..(Len(t)) :
       /\ \A j \in 1..(i - 1) : j <= Len(s) /\ s[j] = t[j]
       /\ \/ i > Len(s)
          \/ i <= Len(s) /\ s[i] < t[i]

\* The paths of a set, ascending.
RECURSIVE SortedPaths(_)
SortedPaths(P) ==
    IF P = {} THEN <<>>
    ELSE LET least == CHOOSE p \in P : \A q \in P \ {p} : BytesLess(p, q)
         IN <<least>> \o SortedPaths(P \ {least})

\* A listing that starts at the marker itself.
list_objects_v2_inclusive(marker) ==
    LET extant == {S3KeyPath(k) : k \in {n \in DOMAIN keyVersions : Exists(keyVersions[n])}}
        rest == SortedPaths({p \in extant : p = marker \/ BytesLess(marker, p)})
        n == IF Len(rest) > MaxPage THEN MaxPage ELSE Len(rest)
    IN [Contents |-> SubSeq(rest, 1, n),
        IsTruncated |-> Len(rest) > n,
        NextContinuationToken |-> IF Len(rest) > n THEN Some(rest[n]) ELSE None]

\* list_objects_v2 under the keys prefix: one page of object paths after
\* the marker (StartAfter, or the place a continuation token stands for).
list_objects_v2(marker) ==
    LET extant == {S3KeyPath(k) : k \in {n \in DOMAIN keyVersions : Exists(keyVersions[n])}}
        rest == SortedPaths({p \in extant : BytesLess(marker, p)})
        n == IF Len(rest) > MaxPage THEN MaxPage ELSE Len(rest)
    IN [Contents |-> SubSeq(rest, 1, n),
        IsTruncated |-> Len(rest) > n,
        NextContinuationToken |-> IF Len(rest) > n THEN Some(rest[n]) ELSE None]

\* key_name_str[:-5] of a path that ends with ".json", as a key name.
KeyOfPath(path) ==
    CHOOSE k \in DOMAIN KeyChars :
       KeyChars[k] = SubSeq(path, 1, Len(path) - Len(JsonSuffix))

EndsWithJson(path) ==
    /\ Len(path) >= Len(JsonSuffix)
    /\ SubSeq(path, Len(path) - Len(JsonSuffix) + 1, Len(path)) = JsonSuffix

\* list_keys(after_key, limit) is called.
ListKeysCall(c, after_key, limit) ==
    /\ pc[c] = "idle"
    /\ nOps > 0
    /\ nOps' = nOps - 1
    /\ loc' = [loc EXCEPT ![c] =
                 [op |-> "list_keys", after_key |-> after_key, limit |-> limit,
                  keys |-> <<>>,
                  marker |-> IF after_key # None THEN S3KeyPath(The(after_key))
                             ELSE <<>>]]
    /\ pc' = [pc EXCEPT ![c] = "list"]
    /\ ret' = [ret EXCEPT ![c].query = None]
    /\ UNCHANGED <<backend, clock, config, lifecycle, fileState, fields, faults>>

\* One page of the listing: its keys are appended until the limit is met.
ListKeysPage(c) ==
    /\ pc[c] = "list"
    /\ LET l == loc[c]
           page == list_objects_v2(l.marker)
           json_paths == SelectSeq(page.Contents, EndsWithJson)
           names == [i \in 1..Len(json_paths) |-> KeyOfPath(json_paths[i])]
           keys == l.keys \o TakeWithLimit(names, l.limit, Len(l.keys))
           at_limit == l.limit # None /\ Len(names) > 0 /\ Len(keys) >= The(l.limit)
       IN IF at_limit \/ ~page.IsTruncated
          THEN /\ ret' = [ret EXCEPT ![c].query =
                            Some([op |-> "list_keys", kind |-> "Result",
                                  after_key |-> l.after_key, limit |-> l.limit,
                                  result |-> [keys |-> keys]])]
               /\ pc' = [pc EXCEPT ![c] = "idle"]
               /\ loc' = [loc EXCEPT ![c] = NoLoc]
          ELSE /\ loc' = [loc EXCEPT ![c] =
                            [l EXCEPT !.keys = keys,
                                      !.marker = The(page.NextContinuationToken)]]
               /\ UNCHANGED <<pc, ret>>
    /\ UNCHANGED <<backend, clock, config, lifecycle, fileState, fields, nOps, faults>>

\* Time passes.
Tick ==
    /\ clock < MaxTime
    /\ clock' = clock + 1
    /\ UNCHANGED <<backend, config, lifecycle, fileState, fields, pc, loc, ret, nOps, faults>>

Next ==
    \/ \E c \in Clients, k \in Keys :
          \E v \in UserValues(config[c].codec) : SetCall(c, k, v)
    \/ \E c \in Clients : GetLatest(c)
    \/ \E c \in Clients : GetLatestFails(c)
    \/ \E c \in Clients : RepairOrphan(c)
    \/ \E c \in Clients : RepairDenied(c)
    \/ \E c \in Clients : RepairFails(c)
    \/ \E c \in Clients : SetHead(c)
    \/ \E c \in Clients : SetHeadFails(c)
    \/ \E c \in Clients : SetPutLog(c)
    \/ \E c \in Clients : SetPutLogFails(c)
    \/ \E c \in Clients : SetPutKey(c)
    \/ \E c \in Clients : SetPutKeyFails(c)
    \/ \E c \in Clients : Cancel(c)
    \/ \E c \in Clients, k \in Keys : GetCall(c, k)
    \/ \E c \in Clients : GetRead(c)
    \/ \E c \in Clients : GetReadFails(c)
    \/ Tick

Spec == Init /\ [][Next]_vars

\* The same program with room for two failures in one run.
SpecF == InitF /\ [][Next]_vars

(* --------------------------- the file extension ----------------------- *)

\* The keys the file clients work with.
FileKeys == {"x"}

\* The content each client has to upload.
SourceOf(c) == IF c = "A" THEN "p" ELSE "q"

\* A versioned put of a file object that writes the body twice.
put_file_object_twice(versions, body) ==
    versions \o <<[body |-> body], [body |-> body]>>

\* put_object on the file bucket: a new version holding the body.
put_file_object(versions, body) == Append(versions, [body |-> body])

\* A delete on a bucket without versioning: the versions are gone.
delete_object_unversioned(versions) == <<[delete_marker |-> TRUE]>>

\* delete_object on the versioned file bucket: a delete marker on top.
delete_object(versions) == Append(versions, [delete_marker |-> TRUE])

\* get_object(key, version_id) on the file bucket: the body, or None for
\* a version that does not exist or is a delete marker.
get_file_object(versions, version_id) ==
    IF version_id \in 1..Len(versions) /\ "body" \in DOMAIN versions[version_id]
    THEN Some(versions[version_id].body)
    ELSE None

compute_hash_from_bytes(data) == [sha256 |-> [bytes |-> data]]

\* What _upload_file returns for the new version of the key's file object.
UploadResult(key, source) ==
    [s3_key |-> file_s3_key_for_file(key),
     s3_version_id |-> Len(fileVersions[file_s3_key_for_file(key)]) + 1,
     content_hash |-> compute_hash_from_bytes(source),
     content_length |-> 1,
     content_type |-> "application/octet-stream",
     user_metadata |-> None]

FileMetadata(upload_result) ==
    [type |-> "FileMetadata",
     s3_key |-> upload_result.s3_key,
     s3_version_id |-> upload_result.s3_version_id,
     content_hash |-> upload_result.content_hash,
     content_length |-> upload_result.content_length,
     content_type |-> upload_result.content_type,
     user_metadata |-> upload_result.user_metadata]

DeletedFileMetadata(s3_key, deleted_version_id) ==
    [type |-> "DeletedFileMetadata",
     s3_key |-> s3_key,
     deleted_version_id |-> deleted_version_id,
     deleted |-> TRUE]

\* A file call ends: its outcome is the Entry or the download it returns,
\* or the exception it raises.
FileReturns(c, outcome) ==
    /\ fileRet' = [fileRet EXCEPT ![c].result =
                      Some([op |-> fileCall[c].op, key |-> fileCall[c].key,
                            version_id |-> IF "version_id" \in DOMAIN fileCall[c]
                                           THEN fileCall[c].version_id ELSE None,
                            outcome |-> outcome])]
    /\ fileCall' = [fileCall EXCEPT ![c] = NoFileCall]

FileIdle(c) == fileCall[c].op = "none" /\ pc[c] = "idle" /\ nOps > 0

\* set_file(key, source) is called: Phase 0, the upload, made once.
SetFileCall(c, k, source) ==
    /\ FileIdle(c)
    /\ LET upload_result == UploadResult(k, source) IN
       /\ fileVersions' = [fileVersions EXCEPT
                             ![upload_result.s3_key] = put_file_object(@, source)]
       /\ fileCall' = [fileCall EXCEPT ![c] =
                         [op |-> "set_file", stage |-> "kv_set", key |-> k,
                          attempt |-> 0, upload_result |-> upload_result]]
    /\ fileRet' = [fileRet EXCEPT ![c].result = None, ![c].verified = None,
                                  ![c].set_files = @ + 1, ![c].uploads = @ + 1]
    /\ ret' = [ret EXCEPT ![c].set = None]
    /\ UNCHANGED <<backend, clock, config, lifecycle, fields, pc, loc, nOps, faults>>

\* set_file calls kv_client.set with the metadata of the cached upload.
SetFileKvSet(c) ==
    /\ fileCall[c].op = "set_file"
    /\ fileCall[c].stage = "kv_set"
    /\ ret[c].set = None
    /\ SetCall(c, fileCall[c].key, FileMetadata(fileCall[c].upload_result))

\* kv_client.set has returned or raised: only a ClientError that is a
\* PreconditionFailed starts another attempt, with the same upload.
SetFileReturn(c) ==
    /\ fileCall[c].op = "set_file"
    /\ fileCall[c].stage = "kv_set"
    /\ pc[c] = "idle"
    /\ ret[c].set # None
    /\ LET outcome == The(ret[c].set) IN
       IF outcome.kind = "PreconditionFailed"
       THEN IF HasNextAttempt(fileCall[c].attempt)
            THEN /\ fileCall' = [fileCall EXCEPT ![c].attempt = @ + 1]
                 /\ ret' = [ret EXCEPT ![c].set = None]
                 /\ UNCHANGED fileRet
            ELSE /\ FileReturns(c, [kind |-> "MaxRetriesExceededError"])
                 /\ UNCHANGED ret
       ELSE /\ FileReturns(c, outcome)
            /\ UNCHANGED ret
    /\ UNCHANGED <<backend, clock, config, lifecycle, fields, pc, loc, nOps, faults, fileVersions>>

\* get_file(key, version_id) is called.
GetFileCall(c, k, version_id) ==
    /\ FileIdle(c)
    /\ fileCall' = [fileCall EXCEPT ![c] =
                      [op |-> "get_file", key |-> k, version_id |-> version_id,
                       stage |-> IF version_id # None THEN "kv_history" ELSE "kv_get"]]
    /\ fileRet' = [fileRet EXCEPT ![c].result = None, ![c].verified = None]
    /\ ret' = [ret EXCEPT ![c].get = None, ![c].query = None]
    /\ UNCHANGED <<backend, clock, config, lifecycle, fields, pc, loc, nOps, faults, fileVersions>>

\* get_file and delete_file call kv_client.get(key).
FileKvGet(c) ==
    /\ fileCall[c].op \in {"get_file", "delete_file"}
    /\ fileCall[c].stage = "kv_get"
    /\ ret[c].get = None
    /\ GetCall(c, fileCall[c].key)

\* get_file calls kv_client.history(key, version_id, 1).
GetFileKvHistory(c) ==
    /\ fileCall[c].op = "get_file"
    /\ fileCall[c].stage = "kv_history"
    /\ ret[c].query = None
    /\ History(c, fileCall[c].key, fileCall[c].version_id, Some(1))

\* get_file: if is_deleted_file(entry.value): raise FileDeletedError
RaisesFileDeleted(entry) == is_deleted_file(entry.value)

\* A delete_file that takes every current entry for an active file.
AlreadyDeletedNever(current_entry) == FALSE

\* delete_file: if is_deleted_file(current_entry.value): raise FileDeletedError
AlreadyDeleted(current_entry) == is_deleted_file(current_entry.value)

\* The end of get_file once the entry is resolved: the tombstone check,
\* then the get of the file object by its version id.
FileDownloads(c, entry) ==
    IF RaisesFileDeleted(entry)
    THEN FileReturns(c, [kind |-> "FileDeletedError"])
    ELSE LET body == get_file_object(fileVersions[entry.value.s3_key],
                                     entry.value.s3_version_id)
         IN IF body = None
            THEN FileReturns(c, [kind |-> "BackendError"])
            ELSE FileReturns(c, [kind |-> "FileDownload", entry |-> entry,
                                 stream |-> The(body)])

\* kv_client.get has answered get_file: a KeyNotFoundError falls back on
\* the history of the key, any other exception propagates.
GetFileAfterGet(c) ==
    /\ fileCall[c].op = "get_file"
    /\ fileCall[c].stage = "kv_get"
    /\ pc[c] = "idle"
    /\ ret[c].get # None
    /\ LET answer == The(ret[c].get) IN
       IF answer.kind = "Entry"
       THEN FileDownloads(c, answer.entry) /\ UNCHANGED ret
       ELSE IF answer.kind = "KeyNotFoundError"
       THEN /\ fileCall' = [fileCall EXCEPT ![c].stage = "kv_history"]
            /\ ret' = [ret EXCEPT ![c].query = None]
            /\ UNCHANGED fileRet
       ELSE FileReturns(c, answer) /\ UNCHANGED ret
    /\ UNCHANGED <<backend, clock, config, lifecycle, fields, pc, loc, nOps, faults, fileVersions>>

\* kv_client.history has answered get_file.
GetFileAfterHistory(c) ==
    /\ fileCall[c].op = "get_file"
    /\ fileCall[c].stage = "kv_history"
    /\ pc[c] = "idle"
    /\ ret[c].query # None
    /\ LET answer == The(ret[c].query) IN
       IF answer.kind # "Result"
       THEN FileReturns(c, [kind |-> answer.kind])
       ELSE IF Len(answer.result.entries) = 0
       THEN FileReturns(c, [kind |-> "FileNotFoundError"])
       ELSE FileDownloads(c, answer.result.entries[1])
    /\ UNCHANGED <<backend, clock, config, lifecycle, fields, pc, loc, ret, nOps, faults,
                   fileVersions>>

\* delete_file(key) is called.
DeleteFileCall(c, k) ==
    /\ FileIdle(c)
    /\ fileCall' = [fileCall EXCEPT ![c] =
                      [op |-> "delete_file", key |-> k, stage |-> "kv_get"]]
    /\ fileRet' = [fileRet EXCEPT ![c].result = None, ![c].verified = None]
    /\ ret' = [ret EXCEPT ![c].get = None]
    /\ UNCHANGED <<backend, clock, config, lifecycle, fields, pc, loc, nOps, faults, fileVersions>>

\* kv_client.get has answered delete_file: the checks, then Phase 1, the
\* delete of the file object, which leaves a delete marker.
DeleteFileMark(c) ==
    /\ fileCall[c].op = "delete_file"
    /\ fileCall[c].stage = "kv_get"
    /\ pc[c] = "idle"
    /\ ret[c].get # None
    /\ LET answer == The(ret[c].get) IN
       IF answer.kind = "KeyNotFoundError"
       THEN FileReturns(c, [kind |-> "FileNotFoundError"])
            /\ UNCHANGED <<fileVersions, ret>>
       ELSE IF answer.kind # "Entry"
       THEN FileReturns(c, answer) /\ UNCHANGED <<fileVersions, ret>>
       ELSE IF AlreadyDeleted(answer.entry)
       THEN FileReturns(c, [kind |-> "FileDeletedError"])
            /\ UNCHANGED <<fileVersions, ret>>
       ELSE LET s3_key == answer.entry.value.s3_key
                versions == delete_object(fileVersions[s3_key])
            IN /\ fileVersions' = [fileVersions EXCEPT ![s3_key] = versions]
               /\ fileCall' = [fileCall EXCEPT ![c] =
                                 [op |-> "delete_file", key |-> fileCall[c].key,
                                  stage |-> "kv_set",
                                  tombstone |->
                                      DeletedFileMetadata(s3_key, Len(versions))]]
               /\ ret' = [ret EXCEPT ![c].set = None]
               /\ UNCHANGED fileRet
    /\ UNCHANGED <<backend, clock, config, lifecycle, fields, pc, loc, nOps, faults>>

\* Phase 2 of delete_file: kv_client.set(key, tombstone).
DeleteFileKvSet(c) ==
    /\ fileCall[c].op = "delete_file"
    /\ fileCall[c].stage = "kv_set"
    /\ ret[c].set = None
    /\ SetCall(c, fileCall[c].key, fileCall[c].tombstone)

\* delete_file returns what kv_client.set returned, or raises what it raised.
DeleteFileReturn(c) ==
    /\ fileCall[c].op = "delete_file"
    /\ fileCall[c].stage = "kv_set"
    /\ pc[c] = "idle"
    /\ ret[c].set # None
    /\ FileReturns(c, The(ret[c].set))
    /\ UNCHANGED <<backend, clock, config, lifecycle, fields, pc, loc, ret, nOps, faults,
                   fileVersions>>

\* verify_file(entry): the entry's hash, then for an active file the hash
\* of the bytes of the version it names.
verify_file(codec, entry) ==
    IF ~verify(codec, entry) THEN FALSE
    ELSE IF is_deleted_file(entry.value) THEN TRUE
    ELSE LET body == get_file_object(fileVersions[entry.value.s3_key],
                                     entry.value.s3_version_id)
         IN IF body = None THEN FALSE
            ELSE compute_hash_from_bytes(The(body)) = entry.value.content_hash

\* The caller verifies the entry its last file call gave it.
VerifyFile(c) ==
    /\ fileCall[c].op = "none"
    /\ fileRet[c].result # None
    /\ fileRet[c].verified = None
    /\ The(fileRet[c].result).outcome.kind \in {"Entry", "FileDownload"}
    /\ fileRet' = [fileRet EXCEPT ![c].verified =
                      Some(verify_file(config[c].codec,
                                       The(fileRet[c].result).outcome.entry))]
    /\ UNCHANGED <<backend, clock, config, lifecycle, fields, pc, loc, ret, nOps, faults,
                   fileVersions, fileCall>>

\* Two file clients built on the same prefix.
InitFiles ==
    /\ NoFiles
    /\ logVersions = <<>>
    /\ keyVersions = [k \in Keys |-> <<>>]
    /\ clock = 1
    /\ config = [c \in Clients |-> [read_only |-> FALSE, codec |-> "file"]]
    /\ Constructed
    /\ fields = [c \in Clients |-> InitFields]
    /\ pc = [c \in Clients |-> "idle"]
    /\ loc = [c \in Clients |-> NoLoc]
    /\ ret = [c \in Clients |-> NoRet]
    /\ nOps = MaxOpsFiles
    /\ faults = MaxFaultsFiles

NextFiles ==
    \/ \E c \in Clients, k \in FileKeys : SetFileCall(c, k, SourceOf(c))
    \/ \E c \in Clients : SetFileKvSet(c)
    \/ \E c \in Clients : SetFileReturn(c)
    \/ \E c \in Clients, k \in FileKeys :
          \E version_id \in {None} \cup {Some(n) : n \in 1..Len(keyVersions[k])} :
             GetFileCall(c, k, version_id)
    \/ \E c \in Clients : FileKvGet(c)
    \/ \E c \in Clients : GetFileKvHistory(c)
    \/ \E c \in Clients : GetFileAfterGet(c)
    \/ \E c \in Clients : GetFileAfterHistory(c)
    \/ \E c \in Clients, k \in FileKeys : DeleteFileCall(c, k)
    \/ \E c \in Clients : DeleteFileMark(c)
    \/ \E c \in Clients : DeleteFileKvSet(c)
    \/ \E c \in Clients : DeleteFileReturn(c)
    \/ \E c \in Clients : VerifyFile(c)
    \/ \E c \in Clients : GetLatest(c)
    \/ \E c \in Clients : RepairOrphan(c)
    \/ \E c \in Clients : SetHead(c)
    \/ \E c \in Clients : SetPutLog(c)
    \/ \E c \in Clients : SetPutKey(c)
    \/ \E c \in Clients : SetPutKeyFails(c)
    \/ \E c \in Clients : GetRead(c)

SpecFiles == InitFiles /\ [][NextFiles]_vars

(* ------------------- queries, read-only and strict clients ------------ *)

\* Client A is the writer with the identity codec; B is a view of it that
\* is either configured read-only or a writer with the strict decoder.
InitQ ==
    /\ NoFiles
    /\ logVersions = <<>>
    /\ keyVersions = [k \in Keys |-> <<>>]
    /\ clock = 1
    /\ \E b \in {[read_only |-> TRUE, codec |-> "lossy"],
                  [read_only |-> FALSE, codec |-> "strict"]} :
          config = [c \in Clients |->
                      IF c = "A" THEN [read_only |-> FALSE, codec |-> "identity"]
                      ELSE b]
    /\ Constructed
    /\ fields = [c \in Clients |-> InitFields]
    /\ pc = [c \in Clients |-> "idle"]
    /\ loc = [c \in Clients |-> NoLoc]
    /\ ret = [c \in Clients |-> NoRet]
    /\ nOps = MaxOpsQ
    /\ faults = MaxFaults

NextQ ==
    \/ \E c \in Clients, k \in Keys :
          \E v \in UserValues(config[c].codec) : SetCall(c, k, v)
    \/ \E c \in Clients : GetLatest(c)
    \/ \E c \in Clients : RepairOrphan(c)
    \/ \E c \in Clients : RepairDenied(c)
    \/ \E c \in Clients : SetHead(c)
    \/ \E c \in Clients : SetPutLog(c)
    \/ \E c \in Clients : SetPutKey(c)
    \/ \E c \in Clients : Cancel(c)
    \/ \E c \in Clients, k \in Keys : GetCall(c, k)
    \/ \E c \in Clients : GetRead(c)
    \/ \E c \in Clients, limit \in {None, Some(1)} : VerifyLogChain(c, limit)
    \/ \E c \in Clients : LogEntries(c, None, None)
    \/ \E c \in Clients, k \in Keys : History(c, k, None, None)
    \/ \E c \in Clients : ListKeysCall(c, None, None)
    \/ \E c \in Clients : ListKeysPage(c)

SpecQ == InitQ /\ [][NextQ]_vars

(* ------------------------ listing a populated bucket ------------------ *)

ListedKeys == DOMAIN KeyChars

\* The key names of a set, ascending by mirror path.
KeysByPath(S) ==
    LET paths == SortedPaths({S3KeyPath(k) : k \in S})
    IN [i \in 1..Len(paths) |-> KeyOfPath(paths[i])]

\* The locals of an uncontended set(k, v) at its commit, on the given log
\* and with no mirror of k yet.
FirstSetOf(log, k, v) ==
    LET state == IF Exists(log) THEN LatestLogState(GetObject(log))
                 ELSE GenesisLogState
        new_sequence == sequence_next(state.sequence)
    IN state @@
       [key |-> k,
        encoded_value |-> v,
        timestamp_ms |-> 1,
        new_sequence |-> new_sequence,
        current_key_etag |-> None,
        entry_hash |-> hash_compute(LogEntryForHash(new_sequence, k, v, 1,
                                                    state.prev_hash)),
        new_log_version_id |-> Len(log) + 1]

\* The bucket after one uncontended set of each key of ks, in that order.
RECURSIVE BucketAfterSets(_)
BucketAfterSets(ks) ==
    IF ks = <<>>
    THEN [log |-> <<>>, keys |-> [k \in ListedKeys |-> <<>>]]
    ELSE LET before == BucketAfterSets(SubSeq(ks, 1, Len(ks) - 1))
             k == ks[Len(ks)]
             l == FirstSetOf(before.log, k, CHOOSE v \in WideValues : TRUE)
         IN [log |-> PutObject(before.log,
                               dumps_canonical(strip_none_values(LogEntryDict(l)))),
             keys |-> [before.keys EXCEPT
                         ![k] = PutObject(<<>>, dumps_canonical(key_data(l)))]]

\* A bucket in which some of the keys have been set, and idle clients.
InitList ==
    /\ \E S \in SUBSET ListedKeys :
          LET bucket == BucketAfterSets(KeysByPath(S))
          IN /\ logVersions = bucket.log
             /\ keyVersions = bucket.keys
    /\ NoFiles
    /\ clock = 2
    /\ config = [c \in Clients |-> [read_only |-> FALSE, codec |-> "identity"]]
    /\ Constructed
    /\ fields = [c \in Clients |-> InitFields]
    /\ pc = [c \in Clients |-> "idle"]
    /\ loc = [c \in Clients |-> NoLoc]
    /\ ret = [c \in Clients |-> NoRet]
    /\ nOps = MaxOpsList
    /\ faults = 0

NextList ==
    \/ \E c \in Clients, after_key \in {None} \cup {Some(k) : k \in ListedKeys},
          limit \in {None} \cup {Some(n) : n \in 1..MaxLimit} :
          ListKeysCall(c, after_key, limit)
    \/ \E c \in Clients : ListKeysPage(c)

SpecList == InitList /\ [][NextList]_vars

(* ------------------ time, read-only and demoted clients --------------- *)

\* Client A writes; B is configured read-only or writes too. Time passes,
\* backend calls fail, repair puts are refused.
InitT ==
    /\ NoFiles
    /\ logVersions = <<>>
    /\ keyVersions = [k \in Keys |-> <<>>]
    /\ clock = 1
    /\ \E read_only \in BOOLEAN :
          config = [c \in Clients |->
                      IF c = "A" THEN [read_only |-> FALSE, codec |-> "identity"]
                      ELSE [read_only |-> read_only, codec |-> "lossy"]]
    /\ Constructed
    /\ fields = [c \in Clients |-> InitFields]
    /\ pc = [c \in Clients |-> "idle"]
    /\ loc = [c \in Clients |-> NoLoc]
    /\ ret = [c \in Clients |-> NoRet]
    /\ nOps = MaxOpsT
    /\ faults = MaxFaults

NextT ==
    \/ \E c \in Clients : \E v \in UserValues(config[c].codec) : SetCall(c, "x", v)
    \/ \E c \in Clients : GetLatest(c)
    \/ \E c \in Clients : GetLatestFails(c)
    \/ \E c \in Clients : RepairOrphan(c)
    \/ \E c \in Clients : RepairDenied(c)
    \/ \E c \in Clients : RepairFails(c)
    \/ \E c \in Clients : SetHead(c)
    \/ \E c \in Clients : SetPutLog(c)
    \/ \E c \in Clients : SetPutKey(c)
    \/ \E c \in Clients : Cancel(c)
    \/ \E c \in Clients : GetCall(c, "x")
    \/ \E c \in Clients : GetRead(c)
    \/ Tick

SpecT == InitT /\ [][NextT]_vars

(* ------------------------ the history of a key ------------------------ *)

\* The locals of an uncontended set(k, v) at its commit, on the given log
\* and mirror of k.
NextSetOf(log, kv, k, v) ==
    LET state == IF Exists(log) THEN LatestLogState(GetObject(log))
                 ELSE GenesisLogState
        new_sequence == sequence_next(state.sequence)
    IN state @@
       [key |-> k,
        encoded_value |-> v,
        timestamp_ms |-> 1,
        new_sequence |-> new_sequence,
        current_key_etag |-> IF Exists(kv) THEN Some(CurrentETag(kv)) ELSE None,
        entry_hash |-> hash_compute(LogEntryForHash(new_sequence, k, v, 1,
                                                    state.prev_hash)),
        new_log_version_id |-> Len(log) + 1]

\* The bucket after n uncontended sets of key k.
RECURSIVE BucketAfterSetsOf(_, _)
BucketAfterSetsOf(k, n) ==
    IF n = 0
    THEN [log |-> <<>>, keys |-> [j \in Keys |-> <<>>]]
    ELSE LET before == BucketAfterSetsOf(k, n - 1)
             l == NextSetOf(before.log, before.keys[k], k,
                            CHOOSE v \in WideValues : TRUE)
         IN [log |-> PutObject(before.log,
                               dumps_canonical(strip_none_values(LogEntryDict(l)))),
             keys |-> [before.keys EXCEPT
                         ![k] = PutObject(@, dumps_canonical(key_data(l)))]]

\* history(key, None, limit) is called by a caller that pages to the end:
\* the first page. The caller keeps what it has been given.
HistoryPagesCall(c, k, limit) ==
    /\ pc[c] = "idle"
    /\ nOps > 0
    /\ nOps' = nOps - 1
    /\ LET h == history(fields[c].latest_orphan_status, config[c].codec, k,
                        None, limit)
           call == [op |-> "history_pages", key |-> k, limit |-> limit,
                    top |-> Len(keyVersions[k]),
                    seen |-> h.entries, cursor |-> h.cursor, pages |-> 1]
       IN IF h.cursor = None
          THEN /\ ret' = [ret EXCEPT ![c].query =
                            Some([op |-> "history_pages", kind |-> "Result",
                                  result |-> call])]
               /\ UNCHANGED <<pc, loc>>
          ELSE /\ loc' = [loc EXCEPT ![c] = call]
               /\ pc' = [pc EXCEPT ![c] = "page"]
               /\ ret' = [ret EXCEPT ![c].query = None]
    /\ UNCHANGED <<backend, clock, config, lifecycle, fileState, fields, faults>>

\* The next page: history(key, cursor, limit) with the cursor of the page
\* before, until a page comes without a cursor.
HistoryPagesNext(c) ==
    /\ pc[c] = "page"
    /\ LET l == loc[c]
           h == history(fields[c].latest_orphan_status, config[c].codec, l.key,
                        l.cursor, l.limit)
           call == [l EXCEPT !.seen = @ \o h.entries, !.cursor = h.cursor,
                             !.pages = @ + 1]
       IN IF h.cursor = None
          THEN /\ ret' = [ret EXCEPT ![c].query =
                            Some([op |-> "history_pages", kind |-> "Result",
                                  result |-> call])]
               /\ pc' = [pc EXCEPT ![c] = "idle"]
               /\ loc' = [loc EXCEPT ![c] = NoLoc]
          ELSE /\ loc' = [loc EXCEPT ![c] = call]
               /\ UNCHANGED <<pc, ret>>
    /\ UNCHANGED <<backend, clock, config, lifecycle, fileState, fields, nOps, faults>>

\* A bucket in which key "x" has been set up to MaxVersionsH times, and
\* two idle writers.
InitH ==
    /\ \E n \in 0..MaxVersionsH :
          LET bucket == BucketAfterSetsOf("x", n)
          IN /\ logVersions = bucket.log
             /\ keyVersions = bucket.keys
    /\ NoFiles
    /\ clock = 2
    /\ config = [c \in Clients |-> [read_only |-> FALSE, codec |-> "identity"]]
    /\ Constructed
    /\ fields = [c \in Clients |-> InitFields]
    /\ pc = [c \in Clients |-> "idle"]
    /\ loc = [c \in Clients |-> NoLoc]
    /\ ret = [c \in Clients |-> NoRet]
    /\ nOps = MaxOpsH
    /\ faults = MaxFaults

NextH ==
    \/ \E c \in Clients : \E v \in UserValues(config[c].codec) : SetCall(c, "x", v)
    \/ \E c \in Clients : GetLatest(c)
    \/ \E c \in Clients : RepairOrphan(c)
    \/ \E c \in Clients : RepairDenied(c)
    \/ \E c \in Clients : SetHead(c)
    \/ \E c \in Clients : SetPutLog(c)
    \/ \E c \in Clients : SetPutKey(c)
    \/ \E c \in Clients : GetCall(c, "x")
    \/ \E c \in Clients : GetRead(c)
    \/ \E c \in Clients,
          before \in {None} \cup {Some(n) : n \in 1..Len(keyVersions["x"])},
          limit \in {Some(n) : n \in 1..MaxLimit} :
          History(c, "x", before, limit)
    \/ \E c \in Clients, limit \in {None} \cup {Some(n) : n \in 1..MaxLimit} :
          HistoryPagesCall(c, "x", limit)
    \/ \E c \in Clients : HistoryPagesNext(c)

SpecH == InitH /\ [][NextH]_vars

(* -------------------------- reading the log back ---------------------- *)

\* get_log_version(version_id): get_object of that version of the log answers
\* NoSuchVersion for an id the log does not hold.
GetLogVersion(c, version_id) ==
    /\ pc[c] = "idle"
    /\ nOps > 0
    /\ nOps' = nOps - 1
    /\ ret' = [ret EXCEPT ![c].query =
                 Some(IF version_id \in 1..Len(logVersions)
                      THEN LET data == read_body_as_json(logVersions[version_id])
                               entry == entry_from_log(data, version_id, config[c].codec)
                           IN IF entry.value = DecodeRaised
                              THEN [op |-> "get_log_version", kind |-> "ValueError"]
                              ELSE [op |-> "get_log_version", kind |-> "Result",
                                    result |-> [version_id |-> version_id,
                                                entry |-> entry]]
                      ELSE [op |-> "get_log_version", kind |-> "KeyNotFoundError",
                            result |-> [version_id |-> version_id]])]
    /\ UNCHANGED <<backend, clock, config, lifecycle, fileState, fields, pc, loc, faults>>

\* An empty bucket and two writers of one codec that set and read the log.
InitLog ==
    /\ NoFiles
    /\ logVersions = <<>>
    /\ keyVersions = [k \in Keys |-> <<>>]
    /\ clock = 1
    /\ config = [c \in Clients |-> [read_only |-> FALSE, codec |-> "identity"]]
    /\ Constructed
    /\ fields = [c \in Clients |-> InitFields]
    /\ pc = [c \in Clients |-> "idle"]
    /\ loc = [c \in Clients |-> NoLoc]
    /\ ret = [c \in Clients |-> NoRet]
    /\ nOps = MaxOpsLog
    /\ faults = MaxFaults

NextLog ==
    \/ \E c \in Clients, k \in Keys :
          \E v \in UserValues(config[c].codec) : SetCall(c, k, v)
    \/ \E c \in Clients : GetLatest(c)
    \/ \E c \in Clients : RepairOrphan(c)
    \/ \E c \in Clients : SetHead(c)
    \/ \E c \in Clients : SetPutLog(c)
    \/ \E c \in Clients : SetPutKey(c)
    \/ \E c \in Clients : Cancel(c)
    \/ \E c \in Clients : LogEntries(c, None, None)
    \/ \E c \in Clients, version_id \in 1..(Len(logVersions) + 1) :
          GetLogVersion(c, version_id)

SpecLog == InitLog /\ [][NextLog]_vars

(* --------------------- verifying a log found in the bucket ------------ *)

\* The log after n sets of "x" by this library, then as another party
\* with access to the bucket may have left it: untouched, with the value
\* of one version rewritten, or with its oldest versions gone.
LogsFound(n) ==
    LET log == BucketAfterSetsOf("x", n).log
    IN {log}
       \cup {[log EXCEPT ![i] =
                 dumps_canonical([read_body_as_json(log[i]) EXCEPT !.value = v])] :
                i \in 1..n, v \in NarrowValues}
       \cup {SubSeq(log, j + 1, n) : j \in 1..(n - 1)}

\* verify_log_chain(limit), kept with the limit it was called with.
VerifyLogChainOf(c, limit) ==
    Answers(c, "verify_log_chain", <<>>,
            [valid |-> verify_log_chain(limit), limit |-> limit])

InitV ==
    /\ \E n \in 1..MaxVersionsV :
          /\ logVersions \in LogsFound(n)
          /\ keyVersions = BucketAfterSetsOf("x", n).keys
    /\ NoFiles
    /\ clock = 2
    /\ config = [c \in Clients |-> [read_only |-> FALSE, codec |-> "identity"]]
    /\ Constructed
    /\ fields = [c \in Clients |-> InitFields]
    /\ pc = [c \in Clients |-> "idle"]
    /\ loc = [c \in Clients |-> NoLoc]
    /\ ret = [c \in Clients |-> NoRet]
    /\ nOps = MaxOpsV
    /\ faults = 0

NextV ==
    \/ \E c \in Clients : \E v \in UserValues(config[c].codec) : SetCall(c, "y", v)
    \/ \E c \in Clients : GetLatest(c)
    \/ \E c \in Clients : RepairOrphan(c)
    \/ \E c \in Clients : SetHead(c)
    \/ \E c \in Clients : SetPutLog(c)
    \/ \E c \in Clients : SetPutKey(c)
    \/ \E c \in Clients, limit \in {None} \cup {Some(n) : n \in 1..MaxLimit} :
          VerifyLogChainOf(c, limit)

SpecV == InitV /\ [][NextV]_vars

(* ----------------------- a listing that fails ------------------------ *)

\* list_objects_v2 raises a ClientError on some page of the listing:
\* "except ClientError: return []", whatever the pages before it gave.
ListKeysPageFails(c) ==
    /\ pc[c] = "list"
    /\ Injects
    /\ ret' = [ret EXCEPT ![c].query =
                 Some([op |-> "list_keys", kind |-> "Result",
                       after_key |-> loc[c].after_key, limit |-> loc[c].limit,
                       result |-> [keys |-> <<>>]])]
    /\ pc' = [pc EXCEPT ![c] = "idle"]
    /\ loc' = [loc EXCEPT ![c] = NoLoc]
    /\ UNCHANGED <<backend, clock, config, lifecycle, fileState, fields, nOps>>

\* A bucket in which some of the keys have been set, idle clients, and a
\* backend that may fail.
InitListF ==
    /\ \E S \in SUBSET ListedKeys :
          LET bucket == BucketAfterSets(KeysByPath(S))
          IN /\ logVersions = bucket.log
             /\ keyVersions = bucket.keys
    /\ NoFiles
    /\ clock = 2
    /\ config = [c \in Clients |-> [read_only |-> FALSE, codec |-> "identity"]]
    /\ Constructed
    /\ fields = [c \in Clients |-> InitFields]
    /\ pc = [c \in Clients |-> "idle"]
    /\ loc = [c \in Clients |-> NoLoc]
    /\ ret = [c \in Clients |-> NoRet]
    /\ nOps = MaxOpsList
    /\ faults = MaxFaults

NextListF ==
    \/ \E c \in Clients, limit \in {None} \cup {Some(n) : n \in 1..MaxLimit} :
          ListKeysCall(c, None, limit)
    \/ \E c \in Clients : ListKeysPage(c)
    \/ \E c \in Clients : ListKeysPageFails(c)

SpecListF == InitListF /\ [][NextListF]_vars

(* ------------------------- with_codec and close ----------------------- *)

\* A close that tears the shared loop down whoever calls it.
CloseShared(c) ==
    /\ lifecycle.owns_loop[c] # None
    /\ c \notin lifecycle.closed
    /\ pc[c] = "idle"
    /\ lifecycle' = [lifecycle EXCEPT !.closed = @ \cup {c}, !.loop = "closed"]
    /\ UNCHANGED <<backend, clock, config, fileState, fields, pc, loc, ret, nOps, faults>>

\* close(): a client that does not own the loop returns at once; the
\* owner closes the exit stack and stops and closes the loop.
Close(c) ==
    /\ lifecycle.owns_loop[c] # None
    /\ c \notin lifecycle.closed
    /\ pc[c] = "idle"
    /\ lifecycle' = [lifecycle EXCEPT
                       !.closed = @ \cup {c},
                       !.loop = IF The(lifecycle.owns_loop[c]) THEN "closed" ELSE @]
    /\ UNCHANGED <<backend, clock, config, fileState, fields, pc, loc, ret, nOps, faults>>

\* self.with_codec(...) on a client that exists: the view c shares config,
\* connection and loop, owns none of them, and starts with fresh mutable
\* state.
WithCodec(self, c) ==
    /\ lifecycle.owns_loop[self] # None
    /\ lifecycle.owns_loop[c] = None
    /\ lifecycle' = [lifecycle EXCEPT !.owns_loop[c] = Some(FALSE)]
    /\ fields' = [fields EXCEPT ![c] = InitFields]
    /\ UNCHANGED <<backend, clock, config, fileState, pc, loc, ret, nOps, faults>>

\* BrandedS3Client._run: a backend call is submitted to the loop.
Runs(c) ==
    /\ lifecycle.owns_loop[c] # None
    /\ lifecycle.loop = "running"

\* The loop was closed under a running call: run_coroutine_threadsafe
\* raises on the next backend call.
LoopClosed(c) ==
    /\ pc[c] # "idle"
    /\ lifecycle.loop = "closed"
    /\ Raises(c, "RuntimeError")
    /\ UNCHANGED <<backend, clock, config, lifecycle, fileState, fields, nOps, faults>>

\* An empty bucket and the client A that __init__ built; its view B is
\* yet to be derived.
InitC ==
    /\ NoFiles
    /\ logVersions = <<>>
    /\ keyVersions = [k \in Keys |-> <<>>]
    /\ clock = 1
    /\ config = [c \in Clients |->
                   [read_only |-> FALSE,
                    codec |-> IF c = "A" THEN "identity" ELSE "lossy"]]
    /\ lifecycle = [loop |-> "running",
                    owns_loop |-> [c \in Clients |-> IF c = "A" THEN Some(TRUE) ELSE None],
                    closed |-> {}]
    /\ fields = [c \in Clients |-> InitFields]
    /\ pc = [c \in Clients |-> "idle"]
    /\ loc = [c \in Clients |-> NoLoc]
    /\ ret = [c \in Clients |-> NoRet]
    /\ nOps = MaxOpsC
    /\ faults = MaxFaults

NextC ==
    \/ \E self, c \in Clients : WithCodec(self, c)
    \/ \E c \in Clients : Close(c)
    \/ \E c \in Clients : LoopClosed(c)
    \/ \E c \in Clients : \E v \in UserValues(config[c].codec) :
          Runs(c) /\ SetCall(c, "x", v)
    \/ \E c \in Clients : Runs(c) /\ GetLatest(c)
    \/ \E c \in Clients : Runs(c) /\ RepairOrphan(c)
    \/ \E c \in Clients : Runs(c) /\ SetHead(c)
    \/ \E c \in Clients : Runs(c) /\ SetPutLog(c)
    \/ \E c \in Clients : Runs(c) /\ SetPutKey(c)
    \/ \E c \in Clients : Runs(c) /\ Cancel(c)
    \/ \E c \in Clients : Runs(c) /\ GetCall(c, "x")
    \/ \E c \in Clients : Runs(c) /\ GetRead(c)

SpecC == InitC /\ [][NextC]_vars

(* ------------------ a set_file that keeps losing the log -------------- *)

InitFR ==
    /\ NoFiles
    /\ logVersions = <<>>
    /\ keyVersions = [k \in Keys |-> <<>>]
    /\ clock = 1
    /\ config = [c \in Clients |-> [read_only |-> FALSE, codec |-> "file"]]
    /\ Constructed
    /\ fields = [c \in Clients |-> InitFields]
    /\ pc = [c \in Clients |-> "idle"]
    /\ loc = [c \in Clients |-> NoLoc]
    /\ ret = [c \in Clients |-> NoRet]
    /\ nOps = MaxOpsR
    /\ faults = 0

\* Client A makes one set_file call, the first of the run; B calls
\* set_file again and again.
RacingSetFileCall(c, k) ==
    /\ c = "A" => fileRet[c].set_files = 0 /\ nOps = MaxOpsR
    /\ SetFileCall(c, k, SourceOf(c))

RacingSetFileKvSet(c) ==
    /\ c = "A" => nOps = MaxOpsR
    /\ SetFileKvSet(c)

NextFR ==
    \/ \E c \in Clients, k \in FileKeys : RacingSetFileCall(c, k)
    \/ \E c \in Clients : RacingSetFileKvSet(c)
    \/ \E c \in Clients : SetFileReturn(c)
    \/ \E c \in Clients : GetLatest(c)
    \/ \E c \in Clients : RepairOrphan(c)
    \/ \E c \in Clients : SetHead(c)
    \/ \E c \in Clients : SetPutLog(c)
    \/ \E c \in Clients : SetPutKey(c)

SpecFR == InitFR /\ [][NextFR]_vars

(* ----------------------- deleting a file twice ------------------------ *)

InitD ==
    /\ NoFiles
    /\ logVersions = <<>>
    /\ keyVersions = [k \in Keys |-> <<>>]
    /\ clock = 1
    /\ config = [c \in Clients |-> [read_only |-> FALSE, codec |-> "file"]]
    /\ Constructed
    /\ fields = [c \in Clients |-> InitFields]
    /\ pc = [c \in Clients |-> "idle"]
    /\ loc = [c \in Clients |-> NoLoc]
    /\ ret = [c \in Clients |-> NoRet]
    /\ nOps = MaxOpsD
    /\ faults = 0

\* The one set_file of the run.
FirstSetFileCall(c, k) ==
    /\ \A d \in Clients : fileRet[d].set_files = 0
    /\ SetFileCall(c, k, SourceOf(c))

NextD ==
    \/ \E c \in Clients, k \in FileKeys : FirstSetFileCall(c, k)
    \/ \E c \in Clients : SetFileKvSet(c)
    \/ \E c \in Clients : SetFileReturn(c)
    \/ \E c \in Clients, k \in FileKeys : DeleteFileCall(c, k)
    \/ \E c \in Clients : FileKvGet(c)
    \/ \E c \in Clients : DeleteFileMark(c)
    \/ \E c \in Clients : DeleteFileKvSet(c)
    \/ \E c \in Clients : DeleteFileReturn(c)
    \/ \E c \in Clients : GetLatest(c)
    \/ \E c \in Clients : RepairOrphan(c)
    \/ \E c \in Clients : SetHead(c)
    \/ \E c \in Clients : SetPutLog(c)
    \/ \E c \in Clients : SetPutKey(c)
    \/ \E c \in Clients : GetRead(c)

SpecD == InitD /\ [][NextD]_vars

(* ----------------------- a writer that keeps losing ------------------- *)

InitR ==
    /\ Fresh
    /\ nOps = MaxOpsR
    /\ faults = MaxFaults

\* Client A makes the first call of the run and no other; B sets again
\* and again.
RacingSetCall(c, k, v) ==
    /\ c = "A" => nOps = MaxOpsR
    /\ SetCall(c, k, v)

NextR ==
    \/ \E c \in Clients : \E v \in UserValues(config[c].codec) :
          RacingSetCall(c, "x", v)
    \/ \E c \in Clients : GetLatest(c)
    \/ \E c \in Clients : RepairOrphan(c)
    \/ \E c \in Clients : SetHead(c)
    \/ \E c \in Clients : SetPutLog(c)
    \/ \E c \in Clients : SetPutLogFails(c)
    \/ \E c \in Clients : SetPutKey(c)

SpecR == InitR /\ [][NextR]_vars


(* ---------------------------- reading the bucket ---------------------- *)

LogIds == 1..Len(logVersions)
LogData(i) == read_body_as_json(logVersions[i])
KeyIds(k) == 1..Len(keyVersions[k])
KeyData(k, j) == read_body_as_json(keyVersions[k][j])

Sum(f, S) ==
    LET RECURSIVE Acc(_)
        Acc(T) == IF T = {} THEN 0
                  ELSE LET x == CHOOSE y \in T : TRUE IN f[x] + Acc(T \ {x})
    IN Acc(S)

\* The sets that have passed the commit point, over all clients.
Committed == Sum([c \in Clients |-> ret[c].commits], Clients)

\* Client c holds a committed entry whose Phase 2 is still to come.
InPhase2(c) == pc[c] = "put_key"

(* ------------------------------- C1 ----------------------------------- *)

\* C1: the sets that committed produced exactly as many log versions, the
\* i-th version carries sequence i-1 (so the sequences are 0..N-1 without
\* gap or duplicate), and a writer past its commit point finds its own
\* entry at the version it was given.
C1_OneVersionPerSet ==
    /\ Len(logVersions) = Committed
    /\ \A i \in LogIds : LogData(i).sequence = i - 1
    /\ \A c \in Clients :
          InPhase2(c) =>
             /\ loc[c].new_log_version_id \in LogIds
             /\ LogData(loc[c].new_log_version_id).sequence = loc[c].new_sequence
             /\ LogData(loc[c].new_log_version_id).hash = loc[c].entry_hash

\* Both clients committed one set each, one of them after losing the race.
C1_Witness ==
    /\ Len(logVersions) = 2
    /\ \A c \in Clients : ret[c].commits = 1
    /\ \E c \in Clients : InPhase2(c) /\ loc[c].attempt = 1

(* ------------------------------- C2 ----------------------------------- *)

\* C2: every log version chains to the one before it (previous_hash is its
\* hash, sequence is one more), every entry's hash is the hash of its own
\* five fields, and timestamps never go back along the log, a retried
\* attempt having read its predecessor and its clock anew.
C2_ChainLinks ==
    /\ \A i \in LogIds :
          LogData(i).hash =
              hash_compute(LogEntryForHash(LogData(i).sequence, LogData(i).key,
                               LogData(i).value, LogData(i).timestamp_ms,
                               LogData(i).previous_hash))
    /\ \A i \in LogIds \ {1} :
          /\ LogData(i).previous_hash = LogData(i - 1).hash
          /\ LogData(i).sequence = LogData(i - 1).sequence + 1
          /\ LogData(i).timestamp_ms >= LogData(i - 1).timestamp_ms

\* A retried attempt committed behind the winner, at a later time than
\* the winner's.
C2_Witness ==
    \E c \in Clients :
       /\ InPhase2(c)
       /\ loc[c].attempt >= 1
       /\ loc[c].new_log_version_id = 2
       /\ LogData(2).timestamp_ms > LogData(1).timestamp_ms

(* ------------------------------- C3 ----------------------------------- *)

\* C3: every log entry but the first records, as previous_version_id, the
\* backend's version id of the log version right before it.
C3_PreviousVersionId ==
    \A i \in LogIds \ {1} :
       get_optional_str(LogData(i), "previous_version_id") = Some(i - 1)

\* Two entries of different writers follow each other.
C3_Witness ==
    /\ Len(logVersions) >= 2
    /\ LogData(1).value # LogData(2).value

(* ------------------------------- C4 ----------------------------------- *)

\* C4: the earliest log entry has sequence 0 and the genesis previous_hash
\* and carries neither optional field; no other entry has sequence 0; and
\* the mirror of the earliest entry is the first version of its key object,
\* both puts of a first write being creations.
C4_Genesis ==
    /\ Exists(logVersions) =>
          /\ LogData(1).sequence = 0
          /\ LogData(1).previous_hash = hash_genesis
          /\ "previous_version_id" \notin DOMAIN LogData(1)
          /\ "previous_key_object_etag" \notin DOMAIN LogData(1)
    /\ \A i \in LogIds : LogData(i).sequence = 0 => i = 1
    /\ \A k \in Keys : \A j \in KeyIds(k) :
          KeyData(k, j).log_version_id = 1 => j = 1

\* Two first writers both prepared sequence 0 on an empty log; one of them
\* created it and the other is about to be refused.
C4_Witness ==
    /\ Len(logVersions) = 1
    /\ \E c, d \in Clients :
          /\ InPhase2(c)
          /\ pc[d] = "put_log"
          /\ loc[d].log_etag = None
          /\ loc[d].new_sequence = 0

(* ------------------------------- C5 ----------------------------------- *)

\* C5: every version of every key object names a log version that exists,
\* is an entry of that key, and has the same hash, sequence and value.
C5_MirrorMatchesLog ==
    \A k \in Keys : \A j \in KeyIds(k) :
       LET m == KeyData(k, j) IN
       /\ m.log_version_id \in LogIds
       /\ LogData(m.log_version_id).key = k
       /\ LogData(m.log_version_id).hash = m.hash
       /\ LogData(m.log_version_id).sequence = m.sequence
       /\ LogData(m.log_version_id).value = m.value

\* The narrow-codec client's repair wrote the mirror of a wide entry whose
\* writer has not reached Phase 2.
C5_Witness ==
    /\ InPhase2("A")
    /\ fields["B"].latest_orphan_status = Some(NotOrphaned)
    /\ \E j \in KeyIds(loc["A"].key) :
          /\ KeyData(loc["A"].key, j).log_version_id = loc["A"].new_log_version_id
          /\ KeyData(loc["A"].key, j).value \in WideValues

(* ------------------------------- C6 ----------------------------------- *)

Quiescent == \A c \in Clients : pc[c] = "idle"

\* The log versions that are entries of key k, and the latest of them.
EntriesOf(k) == {i \in LogIds : LogData(i).key = k}
LatestOf(k) == CHOOSE i \in EntriesOf(k) : \A j \in EntriesOf(k) : j <= i

\* Key k has log entries and its mirror is missing or is not the latest.
MirrorDiffers(k) ==
    /\ EntriesOf(k) # {}
    /\ \/ ~Exists(keyVersions[k])
       \/ read_body_as_json(Current(keyVersions[k])).log_version_id # LatestOf(k)

\* C6: with no operation in progress, a key whose mirror differs from its
\* latest log entry is the key of the log head, so there is at most one.
C6_OnlyHeadOrphan ==
    Quiescent =>
       \A k \in Keys :
          MirrorDiffers(k) => k = read_body_as_json(Current(logVersions)).key

(* ------------------------------- C7 ----------------------------------- *)

\* The mirror of log entry i's key exists and holds entry i or a later one.
Reflected(i) ==
    LET kv == keyVersions[LogData(i).key] IN
    /\ Exists(kv)
    /\ read_body_as_json(Current(kv)).log_version_id >= i

\* Phase 2 of log entry i is still to come.
Phase2Pending(i) == \E c \in Clients : InPhase2(c) /\ loc[c].new_log_version_id = i

\* C7: an entry whose Phase 2 is not going to run any more is reflected by
\* the mirror of its key as soon as a later set has committed.
C7_HealedByNextSet ==
    \A i \in LogIds :
       (i < Len(logVersions) /\ ~Phase2Pending(i)) => Reflected(i)

(* ------------------------------- C8 ----------------------------------- *)

\* What client c's last set and the get after it returned.
SetReturned(c) == ret[c].set # None /\ The(ret[c].set).kind = "Entry"
SetResult(c) == The(ret[c].set).entry
GetAnswered(c) ==
    /\ ret[c].get # None
    /\ The(ret[c].get).kind \in {"Entry", "KeyNotFoundError"}
GetKey(c) ==
    IF The(ret[c].get).kind = "Entry" THEN The(ret[c].get).entry.key
    ELSE The(ret[c].get).key
GetFound(c) == ret[c].get # None /\ The(ret[c].get).kind = "Entry"
GetResult(c) == The(ret[c].get).entry

\* Client c's set returned, its get of the same key was answered after
\* it, and the set's entry is still the latest entry of that key.
ReadAfterOwnWrite(c) ==
    /\ SetReturned(c)
    /\ GetAnswered(c)
    /\ GetKey(c) = SetResult(c).key
    /\ LatestOf(SetResult(c).key) = SetResult(c).version_id

\* C8 as stated: a get that follows the client's own set of the key, no
\* other write to the key having come in, returns the value and the hash
\* of that set.
C8_ReadYourWrite ==
    \A c \in Clients :
       ReadAfterOwnWrite(c) =>
          /\ GetFound(c)
          /\ GetResult(c).value = SetResult(c).value
          /\ GetResult(c).hash = SetResult(c).hash

\* C8, amended: the same when the set's Phase 2 succeeded, that is when
\* the Entry it returned carries the mirror's etag.
C8_ReadYourMirroredWrite ==
    \A c \in Clients :
       (ReadAfterOwnWrite(c) /\ SetResult(c).previous_key_object_etag # None) =>
          /\ GetFound(c)
          /\ GetResult(c).value = SetResult(c).value
          /\ GetResult(c).hash = SetResult(c).hash

\* The narrow-codec client read back its own mirrored write.
C8_Witness ==
    /\ ReadAfterOwnWrite("B")
    /\ SetResult("B").previous_key_object_etag # None
    /\ GetFound("B")
    /\ GetResult("B").value \in NarrowValues

(* ------------------------------- C9 ----------------------------------- *)

\* C9: the Entry a set returned verifies, and verifies just the same with
\* another version id, previous version id or key etag: only sequence,
\* key, value, timestamp and previous hash enter the hash.
C9_ReturnedEntryVerifies ==
    \A c \in Clients :
       SetReturned(c) =>
          LET e == SetResult(c) IN
          /\ verify(config[c].codec, e)
          /\ e.hash = hash_compute([sequence |-> e.sequence, key |-> e.key,
                          value |-> value_encoder(config[c].codec, e.value),
                          timestamp_ms |-> e.timestamp_ms,
                          previous_hash |-> e.previous_hash])
          /\ verify(config[c].codec,
                    [e EXCEPT !.version_id = @ + 1,
                              !.previous_version_id = Some(e.version_id),
                              !.previous_key_object_etag = None])

\* A set returned an Entry that has a predecessor and a key etag, at a
\* time later than the entry's timestamp.
C9_Witness ==
    \E c \in Clients :
       /\ SetReturned(c)
       /\ SetResult(c).previous_version_id # None
       /\ SetResult(c).previous_key_object_etag # None
       /\ SetResult(c).timestamp_ms < clock

(* ------------------------------- C10 ---------------------------------- *)

\* C10: log versions are never removed or changed; a set that leaves
\* Phase 2 other than by cancellation returns the Entry of the version it
\* committed; and that Entry carries a key etag exactly when the Phase-2
\* put wrote the mirror, the etag being the mirror's new one.
C10_CommitPoint ==
    [][/\ Len(logVersions') >= Len(logVersions)
       /\ SubSeq(logVersions', 1, Len(logVersions)) = logVersions
       /\ \A c \in Clients :
             (InPhase2(c) /\ pc'[c] = "idle"
                 /\ The(ret'[c].set).kind # "Cancelled") =>
                LET r == The(ret'[c].set)
                    k == loc[c].key
                IN /\ r.kind = "Entry"
                   /\ r.entry.version_id = loc[c].new_log_version_id
                   /\ r.entry.hash = LogData(r.entry.version_id).hash
                   /\ (r.entry.previous_key_object_etag # None)
                         <=> (keyVersions'[k] # keyVersions[k])
                   /\ r.entry.previous_key_object_etag # None =>
                         The(r.entry.previous_key_object_etag)
                            = CurrentETag(keyVersions'[k])]_vars

\* A set returned its Entry without a key etag, its Phase-2 put having
\* failed, and the entry is in the log with no mirror.
C10_Witness ==
    \E c \in Clients :
       /\ SetReturned(c)
       /\ SetResult(c).previous_key_object_etag = None
       /\ LogData(SetResult(c).version_id).hash = SetResult(c).hash
       /\ ~Exists(keyVersions[SetResult(c).key])

(* ------------------------------- C11 ---------------------------------- *)

InSet(c) == pc[c] \in {"latest", "repair", "head", "put_log"} /\ loc[c].op = "set"

SetExhausted(c) == ret[c].set # None /\ The(ret[c].set).kind = "RetriesExhausted"

\* C11: a set is never in an attempt beyond its tenth; it starts another
\* attempt, from pre-flight and with fresh locals, exactly after a log put
\* refused with PreconditionFailed, while any other failure of the log put
\* ends the call; and a set that failed with the budget exhausted carries
\* PreconditionFailed as its last error, made the bucket no different in
\* the step that gave up, and (being the client's only call) left no log
\* entry and no mirror version of its own.
C11_RetryBudget ==
    /\ [](\A c \in Clients :
            /\ InSet(c) =>
                  /\ loc[c].attempt < max_retries
                  /\ loc[c].last_error # None <=> loc[c].attempt > 0
            /\ SetExhausted(c) =>
                  /\ The(ret[c].set).last_error = Some("PreconditionFailed")
                  /\ ret[c].commits = 0 =>
                        /\ \A i \in LogIds :
                              LogData(i).value \notin UserValues(config[c].codec)
                        /\ \A k \in Keys : \A j \in KeyIds(k) :
                              KeyData(k, j).value \notin UserValues(config[c].codec))
    /\ [][\A c \in Clients :
            /\ (pc[c] = "put_log" /\ pc'[c] = "latest") =>
                  /\ ~CondPutPasses(logVersions, loc[c].log_etag)
                  /\ faults' = faults
                  /\ backend' = backend
                  /\ loc'[c] = [op |-> "set", key |-> loc[c].key,
                                value |-> loc[c].value,
                                attempt |-> loc[c].attempt + 1,
                                last_error |-> Some("PreconditionFailed")]
            /\ (pc[c] = "put_log" /\ pc'[c] # "put_log" /\ faults' # faults) =>
                  /\ pc'[c] = "idle"
                  /\ The(ret'[c].set).kind = "BackendError"
            /\ (pc[c] = "put_log" /\ pc'[c] = "idle" /\ faults' = faults) =>
                  /\ loc[c].attempt = max_retries - 1
                  /\ SetExhausted(c)'
                  /\ backend' = backend
                  /\ ret'[c].commits = ret[c].commits]_vars

\* Client A's only set lost the race ten times and gave up.
C11_Witness ==
    /\ SetExhausted("A")
    /\ ret["A"].commits = 0
    /\ Len(logVersions) = max_retries


(* C12: A client configured read-only never puts. Its set ends at once with
   ReadOnlyError, in the step of the call and with no backend call, it never
   stands at a call of the write path (log head, repair, head of the key
   object, either put), no commit is ever counted for it, and every step of
   one of its calls (set, get, history, log_entries, list_keys,
   verify_log_chain) leaves the log object and every mirror unchanged. *)
ReadOnlyClients == {c \in Clients : config[c].read_only}

LocalState(c) == <<pc[c], loc[c], ret[c], fields[c]>>

C12_ReadOnlyNeverPuts ==
    /\ [](\A c \in ReadOnlyClients :
            /\ pc[c] \in {"idle", "read", "list"}
            /\ ret[c].set \in {None, Some([kind |-> "ReadOnlyError"])}
            /\ ret[c].commits = 0)
    /\ [][\A c \in ReadOnlyClients :
            LocalState(c)' # LocalState(c) =>
               /\ backend' = backend
               /\ (ret'[c].set # ret[c].set =>
                      /\ pc[c] = "idle" /\ pc'[c] = "idle"
                      /\ ret'[c].set = Some([kind |-> "ReadOnlyError"]))]_vars

\* The read-only client was refused a set, was answered a get and a query,
\* all beside a committed entry whose mirror was never written.
C12_Witness ==
    /\ "B" \in ReadOnlyClients
    /\ ret["B"].set = Some([kind |-> "ReadOnlyError"])
    /\ ret["B"].query # None
    /\ Len(logVersions) = 1
    /\ \A k \in Keys : ~Exists(keyVersions[k])
    /\ pc["A"] = "idle"

(* C13: When the set of key k was cut off between its two phases (its
   entry is the log head, k has no mirror, no set stands before its
   Phase 2), a get of k answered in that state returns the orphaned entry
   if and only if the client is read-only, configured so or demoted after a
   refused repair put, and raises KeyNotFoundError otherwise. (A decoder
   that rejects the orphan's value raises in place of the return.) *)
HeadIsOrphanOf(k) ==
    /\ Exists(logVersions)
    /\ LogData(Len(logVersions)).key = k
    /\ ~Exists(keyVersions[k])
    /\ \A d \in Clients : ~InPhase2(d)

C13_OrphanIffReadOnly ==
    [][\A c \in Clients :
         (pc[c] = "read" /\ pc'[c] = "idle" /\ HeadIsOrphanOf(loc[c].key)) =>
            LET result == The(ret'[c].get) IN
            IF SkipsRepairPut(c)
            THEN /\ result.kind \in {"Entry", "ValueError"}
                 /\ result.kind = "Entry" =>
                       result.entry.hash = LogData(Len(logVersions)).hash
            ELSE result.kind = "KeyNotFoundError"]_vars

(* C14: Whatever sets the clients of the prefix have made, one after the
   other or interleaved, with the same codec or with different ones,
   verify_log_chain is true: it is true of the log in every state, over the
   whole log and over its newest entries, and every call of it that a
   client made returned true. *)
ChainAnswered(c) ==
    /\ ret[c].query # None
    /\ The(ret[c].query).op = "verify_log_chain"

Rejects(c, json) == value_decoder(config[c].codec, json) = DecodeRaised

HoldsRawHead(c) ==
    "latest_entry" \in DOMAIN loc[c] =>
       /\ loc[c].latest_entry.version_id \in LogIds
       /\ loc[c].latest_entry.value = LogData(loc[c].latest_entry.version_id).value

CachesRawOrphan(c) ==
    LET status == fields[c].latest_orphan_status IN
    (status # None /\ The(status).orphan_entry # None) =>
       LET raw == The(The(status).orphan_entry) IN
       /\ raw.version_id \in LogIds
       /\ raw.value = LogData(raw.version_id).value

C15_DecoderOnlyOnOwnRead ==
    /\ [](\A c \in Clients :
            /\ HoldsRawHead(c)
            /\ CachesRawOrphan(c)
            /\ ret[c].set # None => The(ret[c].set).kind # "ValueError"
            /\ ChainAnswered(c) => The(ret[c].query).kind # "ValueError")
    /\ [][\A c \in Clients :
            (pc[c] = "read" /\ pc'[c] = "idle") =>
               LET k == loc[c].key
                   status == fields[c].latest_orphan_status
                   rejected ==
                       IF Exists(keyVersions[k])
                       THEN Rejects(c, read_body_as_json(Current(keyVersions[k])).value)
                       ELSE /\ status # None
                            /\ The(status).orphan_key = Some(k)
                            /\ The(status).orphan_entry # None
                            /\ SkipsRepairPut(c)
                            /\ Rejects(c, The(The(status).orphan_entry).value)
               IN (The(ret'[c].get).kind = "ValueError") <=> rejected]_vars

\* The strict view made a set whose pre-flight met, and repaired, the
\* orphaned entry of the other codec; then its get of its own key returned
\* while the log head and the other mirror were of the foreign shape.
C15_Witness ==
    /\ config["B"].codec = "strict"
    /\ Len(logVersions) = 2
    /\ LogData(1).value \in WideValues
    /\ ret["A"].set # None /\ The(ret["A"].set).kind = "Cancelled"
    /\ Exists(keyVersions[LogData(1).key])
    /\ SetReturned("B")
    /\ SetResult("B").key # LogData(1).key
    /\ GetFound("B")

(* C20: list_keys returns each extant mirror once, ascending by mirror
   path, whatever the page boundaries of the backend: a call with after_key
   and limit returns exactly the first `limit` keys (all of them with no
   limit) of the extant mirrors whose path lies after the path of after_key,
   in path order. Successive calls that pass the last key returned
   therefore go through every mirror once. *)
ListAnswered(c) ==
    /\ ret[c].query # None
    /\ The(ret[c].query).op = "list_keys"

ExtantAfter(after_key) ==
    KeysByPath({k \in DOMAIN keyVersions :
                  /\ Exists(keyVersions[k])
                  /\ after_key # None =>
                        BytesLess(S3KeyPath(The(after_key)), S3KeyPath(k))})

C20_ListKeysOnceAscending ==
    \A c \in Clients :
       ListAnswered(c) =>
          LET call == The(ret[c].query)
              all == ExtantAfter(call.after_key)
              n == IF call.limit = None \/ Len(all) <= The(call.limit)
                   THEN Len(all) ELSE The(call.limit)
          IN /\ call.result.keys = SubSeq(all, 1, n)
             /\ \A i, j \in 1..Len(call.result.keys) :
                   i < j => BytesLess(S3KeyPath(call.result.keys[i]),
                                      S3KeyPath(call.result.keys[j]))

\* A call resumed after key "a" with a limit of three went over two backend
\* pages of a bucket that holds every key, and skipped "a-b", whose path
\* sorts before that of "a".
C20_Witness ==
    /\ \A k \in ListedKeys : Exists(keyVersions[k])
    /\ ListAnswered("A")
    /\ The(ret["A"].query).after_key = Some("a")
    /\ The(ret["A"].query).limit = Some(3)
    /\ The(ret["A"].query).result.keys = <<"b", "x", "y">>

(* C16: A set_file call uploads its payload once, however often the log
   write is retried: every client has made as many uploads as set_file
   calls, the file bucket holds exactly one version with a body for each
   call, no two log entries name the same file version, and the Entry a
   set_file returns names a version that holds the bytes the caller
   handed in. *)
BodyVersions ==
    UNION {{[s3_key |-> p, s3_version_id |-> i] :
              i \in {j \in 1..Len(fileVersions[p]) :
                       "body" \in DOMAIN fileVersions[p][j]}} :
           p \in DOMAIN fileVersions}

ActiveLogIds ==
    {i \in LogIds : file_value_decoder(LogData(i).value).type = "FileMetadata"}

FileVersionOf(i) ==
    [s3_key |-> LogData(i).value.s3_key,
     s3_version_id |-> LogData(i).value.s3_version_id]

SetFileReturned(c) ==
    /\ fileRet[c].result # None
    /\ The(fileRet[c].result).op = "set_file"
    /\ The(fileRet[c].result).outcome.kind = "Entry"

C16_UploadsOnce ==
    /\ \A c \in Clients : fileRet[c].uploads = fileRet[c].set_files
    /\ Cardinality(BodyVersions) = Sum([c \in Clients |-> fileRet[c].set_files], Clients)
    /\ \A i, j \in ActiveLogIds : FileVersionOf(i) = FileVersionOf(j) => i = j
    /\ \A i \in ActiveLogIds : FileVersionOf(i) \in BodyVersions
    /\ \A c \in Clients :
          SetFileReturned(c) =>
             LET value == The(fileRet[c].result).outcome.entry.value IN
             get_file_object(fileVersions[value.s3_key], value.s3_version_id)
                = Some(SourceOf(c))

\* A set_file lost the race for the log to the other client's set_file,
\* committed at its second attempt, and holds its one upload.
C16_Witness ==
    /\ fileCall["A"].op = "set_file"
    /\ InPhase2("A")
    /\ loc["A"].attempt = 1
    /\ fileRet["A"].uploads = 1
    /\ SetFileReturned("B")
    /\ Cardinality(BodyVersions) = 2

(* C17: After set_file(key, bytes) and then delete_file(key), a
   get_file(key, version_id) given the mirror version id of the active
   entry returns that entry and the bytes it names, and verify_file of the
   entry is true. *)
GetFileReturned(c) ==
    /\ fileRet[c].result # None
    /\ The(fileRet[c].result).op = "get_file"

MirrorValue(k, v) == file_value_decoder(KeyData(k, v).value)

C17_HistoricalVersionReadable ==
    \A c \in Clients :
       GetFileReturned(c) =>
          LET call == The(fileRet[c].result)
              k == call.key
          IN \A v \in KeyIds(k) :
                (/\ call.version_id = Some(v)
                 /\ ~is_deleted_file(MirrorValue(k, v))
                 /\ v + 1 \in KeyIds(k)
                 /\ is_deleted_file(MirrorValue(k, v + 1))) =>
                   /\ call.outcome.kind = "FileDownload"
                   /\ call.outcome.entry.hash = KeyData(k, v).hash
                   /\ Some(call.outcome.stream) =
                         get_file_object(fileVersions[MirrorValue(k, v).s3_key],
                                         MirrorValue(k, v).s3_version_id)
                   /\ fileRet[c].verified # None => The(fileRet[c].verified)

(* C18: what get_file and delete_file do on a deleted and on an unknown
   key. The two statements of it follow their common parts. *)
\* The call of c reads the key object for get_file or delete_file.
FileReads(c) ==
    /\ fileCall[c].op \in {"get_file", "delete_file"}
    /\ fileCall[c].stage = "kv_get"
    /\ pc[c] = "read" /\ pc'[c] = "idle"

\* The call of c acts on what kv_client.get gave it.
FileResolves(c) ==
    /\ fileCall[c].op \in {"get_file", "delete_file"}
    /\ fileCall[c].stage = "kv_get"
    /\ pc[c] = "idle"
    /\ ret[c].get # None
    /\ fileCall'[c] # fileCall[c]

GotTombstone(answer) ==
    /\ answer # None
    /\ The(answer).kind = "Entry"
    /\ The(answer).entry.value.type = "DeletedFileMetadata"

FileFailsWith(c, kind) ==
    /\ fileRet'[c].result # None
    /\ The(fileRet'[c].result).outcome.kind = kind
    /\ fileVersions' = fileVersions
    /\ backend' = backend

\* What get_file and delete_file make of the answer of kv_client.get, and
\* that a call that is still before its delete marker creates nothing.
FailsWithoutTrace(c) ==
    /\ FileResolves(c) =>
          /\ GotTombstone(ret[c].get) => FileFailsWith(c, "FileDeletedError")
          /\ (/\ fileCall[c].op = "delete_file"
              /\ The(ret[c].get).kind = "KeyNotFoundError") =>
                FileFailsWith(c, "FileNotFoundError")
    /\ (/\ fileCall[c].op \in {"get_file", "delete_file"}
        /\ fileCall[c].stage \in {"kv_get", "kv_history"}
        /\ fileCall'[c].op = "none" \/ fileCall'[c].stage \in {"kv_get", "kv_history"}
        /\ <<pc[c], loc[c], fileCall[c]>>' # <<pc[c], loc[c], fileCall[c]>>) =>
          /\ logVersions' = logVersions
          /\ fileVersions' = fileVersions

LogIdsOf(k) == {i \in LogIds : LogData(i).key = k}

CurrentIsTombstone(k) ==
    /\ LogIdsOf(k) # {}
    /\ LET i == CHOOSE n \in LogIdsOf(k) : \A m \in LogIdsOf(k) : m <= n
       IN file_value_decoder(LogData(i).value).type = "DeletedFileMetadata"

MirrorIsTombstone(k) ==
    /\ Exists(keyVersions[k])
    /\ MirrorValue(k, Len(keyVersions[k])).type = "DeletedFileMetadata"

OthersIdle(c) ==
    \A d \in Clients \ {c} : pc[d] = "idle" /\ fileCall[d].op = "none"

ReadableAs(versions, value) ==
    LET body == get_file_object(versions[value.s3_key], value.s3_version_id)
    IN /\ body # None
       /\ compute_hash_from_bytes(The(body)) = value.content_hash

C19_FileVersionOutlivesEntry ==
    /\ [](\A i \in ActiveLogIds : ReadableAs(fileVersions, LogData(i).value))
    /\ [][/\ Len(logVersions') > Len(logVersions) =>
               LET value == read_body_as_json(logVersions'[Len(logVersions')]).value
               IN file_value_decoder(value).type = "FileMetadata" =>
                     ReadableAs(fileVersions, value)
           /\ \A p \in DOMAIN fileVersions :
                 /\ Len(fileVersions'[p]) >= Len(fileVersions[p])
                 /\ \A i \in 1..Len(fileVersions[p]) :
                       fileVersions'[p][i] = fileVersions[p][i]]_vars

\* A file was set, deleted and set again: the log holds two active entries
\* around a tombstone, the file object two bodies around a delete marker.
C19_Witness ==
    /\ Len(logVersions) = 3
    /\ ActiveLogIds = {1, 3}
    /\ Len(fileVersions[file_s3_key_for_file("x")]) = 3
    /\ \A c \in Clients : fileCall[c].op = "none"
    /\ ReadableAs(fileVersions, LogData(1).value)

(* C21: history(key, None, None) returns only entries of the requested key,
   newest first: the sequence numbers go strictly down along the list, so
   no entry comes twice, also when the cached orphan entry of the key is
   put in front of the mirror's versions. *)
HistoryAnswered(c) ==
    /\ ret[c].query # None
    /\ The(ret[c].query).op = "history"
    /\ The(ret[c].query).kind = "Result"

HistoryResult(c) == The(ret[c].query).result

StrictlyDescending(entries) ==
    \A i, j \in 1..Len(entries) : i < j => entries[i].sequence > entries[j].sequence

C21_HistoryNewestFirst ==
    \A c \in Clients :
       (/\ HistoryAnswered(c)
        /\ HistoryResult(c).before = None
        /\ HistoryResult(c).limit = None) =>
          /\ \A i \in 1..Len(HistoryResult(c).entries) :
                HistoryResult(c).entries[i].key = HistoryResult(c).key
          /\ StrictlyDescending(HistoryResult(c).entries)

(* C22: A second repair pass on the same log head changes nothing. The put
   of a repair pass adds at most one version to the mirror of the head's
   key and to no other object, and the pass reports success whether the put
   was accepted or refused with PreconditionFailed; right after it, the same
   put would be refused; and a put that would be refused for the head now
   is refused for it ever after, whatever else happens. So every pass on a
   head after the first writes nothing. *)
RepairCondition(i) == get_optional_str(LogData(i), "previous_key_object_etag")

\* The conditional put of a repair pass on log entry i would be accepted.
RepairWouldWrite(kv, i) == CondPutPasses(kv[LogData(i).key], RepairCondition(i))

\* Client c's repair pass issues its put in this step.
RepairPuts(c) ==
    /\ pc[c] = "repair"
    /\ pc'[c] # "repair"
    /\ ~SkipsRepairPut(c)
    /\ faults' = faults

C22_SecondRepairWritesNothing ==
    [][/\ \A c \in Clients :
             RepairPuts(c) =>
                LET L == loc[c].latest_entry.version_id
                    k == loc[c].latest_entry.key
                IN /\ ~RepairWouldWrite(keyVersions', L)
                   /\ logVersions' = logVersions
                   /\ \A n \in Keys \ {k} : keyVersions'[n] = keyVersions[n]
                   /\ \/ keyVersions'[k] = keyVersions[k]
                      \/ /\ RepairWouldWrite(keyVersions, L)
                         /\ keyVersions'[k] =
                               Append(keyVersions[k],
                                      dumps_canonical(repair_data(config[c].codec,
                                                                  loc[c].latest_entry)))
                   /\ fields'[c].can_write = Some(TRUE)
                   /\ fields'[c].latest_orphan_status = Some(NotOrphaned)
                   /\ pc'[c] = AfterRepairPc(loc[c])
       /\ \A i \in LogIds :
             ~RepairWouldWrite(keyVersions, i) => ~RepairWouldWrite(keyVersions', i)]_vars

\* Two passes on the same head, the entry of a set that was cancelled
\* before its Phase 2: the first pass has created the mirror and the second,
\* still to put, holds the same head.
C22_Witness ==
    \E c \in Clients :
       /\ pc[c] = "repair"
       /\ ~SkipsRepairPut(c)
       /\ loc[c].latest_entry.version_id = Len(logVersions)
       /\ \E d \in Clients \ {c} :
             /\ ret[d].set # None /\ The(ret[d].set).kind = "Cancelled"
             /\ fields[d].latest_orphan_status = Some(NotOrphaned)
             /\ pc[d] \in {"head", "read"}
       /\ ~RepairWouldWrite(keyVersions, Len(logVersions))
       /\ KeyData(loc[c].latest_entry.key,
                  Len(keyVersions[loc[c].latest_entry.key])).log_version_id
             = Len(logVersions)

(* C23: When no backend call has failed and every set that was started has
   returned, the mirror of every key holds exactly one version for each log
   entry of the key, in the order of the log, however the sets of the
   clients raced each other; a history(key) answered then returns as many
   entries as the key has log entries (two for two racing sets of the key),
   and a list_keys answered then names each key that was set once. *)
NoFailureSoFar == faults = MaxFaults

\* The log versions of key k, oldest first.
RECURSIVE Ascending(_)
Ascending(S) ==
    IF S = {} THEN <<>>
    ELSE LET least == CHOOSE i \in S : \A j \in S : i <= j
         IN <<least>> \o Ascending(S \ {least})

MirrorOfEachEntry(k) ==
    LET ids == Ascending(EntriesOf(k)) IN
    /\ Len(keyVersions[k]) = Len(ids)
    /\ \A j \in 1..Len(ids) : KeyData(k, j).log_version_id = ids[j]

C23_OneMirrorVersionPerSet ==
    /\ []((Quiescent /\ NoFailureSoFar) => \A k \in Keys : MirrorOfEachEntry(k))
    /\ [][\A c \in Clients :
            /\ (/\ Quiescent /\ NoFailureSoFar
                /\ ret'[c].query # ret[c].query
                /\ HistoryAnswered(c)') =>
                  LET h == HistoryResult(c)'
                      ids == Ascending(EntriesOf(h.key))
                  IN /\ Len(h.entries) = Len(ids)
                     /\ \A j \in 1..Len(ids) :
                           h.entries[j].version_id = ids[Len(ids) + 1 - j]
            /\ (/\ \A d \in Clients \ {c} : pc[d] = "idle"
                /\ NoFailureSoFar
                /\ pc[c] = "list" /\ pc'[c] = "idle") =>
                  The(ret'[c].query).result.keys
                     = KeysByPath({k \in Keys : EntriesOf(k) # {}})]_vars

\* Both clients set the same key on an empty bucket and raced: the Phase 2
\* of one found the mirror already written. The history of the key then
\* returned two entries.
C23_Witness ==
    /\ Quiescent /\ NoFailureSoFar
    /\ \A c \in Clients : SetReturned(c) /\ SetResult(c).key = "x"
    /\ \E c \in Clients : SetResult(c).previous_key_object_etag = None
    /\ HistoryAnswered("A")
    /\ HistoryResult("A").key = "x"
    /\ Len(HistoryResult("A").entries) = 2
    /\ Len(keyVersions["x"]) = 2

(* C24: When the put of a repair pass on log head L is refused with
   PreconditionFailed, the mirror of L's key holds L or a later entry of the
   key at that moment: the pass that reports success leaves no stale
   mirror. *)
C24_ConflictMeansRepaired ==
    [][\A c \in Clients :
         (RepairPuts(c) /\ ~RepairWouldWrite(keyVersions, loc[c].latest_entry.version_id))
            => Reflected(loc[c].latest_entry.version_id)]_vars

(* C25: The mirror of a key never lags the log by more than the entry at
   the log head. A key whose mirror is not its latest log entry is the key
   of the log head, and its mirror is what it was before the head was
   committed: the key's entry before the head, or no mirror when the head is
   the key's first entry. A get that reads only the mirror returns
   accordingly. *)
\* The mirror of k holds the entry of k before its latest, or is missing
\* when there is none.
OneBehind(k) ==
    LET earlier == EntriesOf(k) \ {LatestOf(k)} IN
    IF earlier = {} THEN ~Exists(keyVersions[k])
    ELSE /\ Exists(keyVersions[k])
         /\ read_body_as_json(Current(keyVersions[k])).log_version_id
               = CHOOSE i \in earlier : \A j \in earlier : j <= i

C25_MirrorAtMostOneBehind ==
    \A k \in Keys :
       MirrorDiffers(k) =>
          /\ LatestOf(k) = Len(logVersions)
          /\ OneBehind(k)

(* C26: when get and set run a repair pass. The two statements of it
   follow their common parts. *)
\* Client c calls get in this step.
CallsGet(c) == pc[c] = "idle" /\ loc'[c] # loc[c] /\ loc'[c].op = "get"

\* Client c calls set in this step and is not refused.
CallsSet(c) == pc[c] = "idle" /\ loc'[c] # loc[c] /\ loc'[c].op = "set"

\* The repair pass of c's call ends in this step and the call goes on.
PassEnds(c) == pc[c] \in {"latest", "repair"} /\ pc'[c] \in {"head", "read"}

TimeSinceLastPass(c) == clock - fields[c].last_repair_check_ms

\* Every attempt of a set begins with a repair pass, Phase 1 is only
\* reached through one, and the end of the pass stamps the client with
\* the time; a get that skips the pass makes one backend call, the read of
\* the mirror, and writes nothing.
PassOfSetAndSkipOfGet(c) ==
    /\ CallsSet(c) => pc'[c] = "latest"
    /\ (pc'[c] = "head" /\ pc[c] # "head") =>
          /\ PassEnds(c)
          /\ fields'[c].last_repair_check_ms = clock
    /\ (pc'[c] = "put_log" /\ pc[c] # "put_log") => pc[c] = "head"
    /\ (PassEnds(c) /\ loc[c].op = "get") =>
          fields'[c].last_repair_check_ms = loc[c].current_time_ms
    /\ CallsGet(c) =>
          /\ pc'[c] \in {"latest", "read"}
          /\ backend' = backend
          /\ fields' = fields
    /\ (pc[c] = "read" /\ pc'[c] # "read") =>
          /\ pc'[c] = "idle"
          /\ backend' = backend
          /\ fields' = fields

\* C26 as stated: a get runs a repair pass only when the time since the
\* client's last pass exceeds repair_check_interval_ms and the client is
\* neither configured read-only nor marked unable to write; every set runs
\* one in its pre-flight and resets the last-pass time; a get that skips
\* the pass issues one backend read. (Stated of a client that has run a
\* pass before, whose last-pass time is that of a pass.)
C26_PassOnlyPastInterval ==
    [][\A c \in Clients :
         /\ PassOfSetAndSkipOfGet(c)
         /\ (CallsGet(c) /\ pc'[c] = "latest"
                /\ fields[c].last_repair_check_ms > 0) =>
               /\ TimeSinceLastPass(c) > repair_check_interval_ms
               /\ ~config[c].read_only
               /\ fields[c].can_write # Some(FALSE)]_vars

\* C26, amended: the same with the pass run exactly when the time since
\* the last pass is at least the interval (the interval has elapsed) and
\* the client may write.
C26_PassOnceIntervalElapsed ==
    [][\A c \in Clients :
         /\ PassOfSetAndSkipOfGet(c)
         /\ CallsGet(c) =>
               (pc'[c] = "latest" <=>
                   /\ TimeSinceLastPass(c) >= repair_check_interval_ms
                   /\ ~config[c].read_only
                   /\ fields[c].can_write # Some(FALSE))]_vars

\* A writer's set ran its pass at time 2, and its get right after skipped
\* the pass and stands at its one read; the other client, configured
\* read-only, has had a get answered after the interval had long elapsed.
C26_Witness ==
    /\ clock = 2
    /\ pc["A"] = "read" /\ loc["A"].op = "get"
    /\ SetReturned("A")
    /\ fields["A"].last_repair_check_ms = 2
    /\ config["B"].read_only
    /\ ret["B"].get # None
    /\ fields["B"].last_repair_check_ms = 0

(* C27: A repair put refused with AccessDenied demotes the client: it
   caches the log head as its orphan and that it cannot write. A demoted
   client stays demoted, and none of its later repair passes puts a mirror:
   they leave the bucket as it is. Its sets go on all the same: the pass of
   a set, denied or probing, is followed by the head of the key object, and
   the Phase-1 and Phase-2 puts of a demoted client write whenever their
   conditions are met. *)
Demoted(c) == fields[c].can_write = Some(FALSE)

C27_DemotedButStillSets ==
    [][\A c \in Clients :
         /\ RepairDenied(c) =>
               /\ Demoted(c)'
               /\ fields'[c].latest_orphan_status =
                     Some([is_orphaned |-> TRUE,
                           orphan_key |-> Some(loc[c].latest_entry.key),
                           orphan_entry |-> Some(loc[c].latest_entry)])
               /\ loc[c].op = "set" => pc'[c] = "head"
         /\ Demoted(c) =>
               /\ Demoted(c)'
               /\ (pc[c] = "repair" /\ pc'[c] # "repair") =>
                     /\ backend' = backend
                     /\ (loc[c].op = "set" /\ faults' = faults) => pc'[c] = "head"
               /\ (pc[c] = "put_log" /\ pc'[c] # "put_log" /\ faults' = faults
                      /\ CondPutPasses(logVersions, loc[c].log_etag)) =>
                     /\ Len(logVersions') = Len(logVersions) + 1
                     /\ pc'[c] = "put_key"
               /\ (pc[c] = "put_key" /\ pc'[c] # "put_key" /\ faults' = faults
                      /\ CondPutPasses(keyVersions[loc[c].key], loc[c].current_key_etag)) =>
                     Len(keyVersions'[loc[c].key]) = Len(keyVersions[loc[c].key]) + 1]_vars

\* A client was demoted in the pre-flight of a set, committed and mirrored
\* that set, and then made another set whose pass probed the mirror and
\* whose two puts succeeded as well.
C27_Witness ==
    \E c \in Clients :
       /\ Demoted(c)
       /\ ret[c].commits = 2
       /\ SetReturned(c)
       /\ SetResult(c).previous_key_object_etag # None
       /\ fields[c].latest_orphan_status = Some(NotOrphaned)
       /\ Len(logVersions) = 3

(* C28: A backend failure inside the repair pass, at the read of the log
   head, at the probe of the mirror or at the put of the mirror, that is
   neither PreconditionFailed nor a denial, does not fail the caller: the
   get goes on to read the mirror of its key, the set goes on to the head
   of Phase 1, and nothing is returned to the caller in that step. *)
\* A backend call of c's repair pass fails in this step, not by a denial.
PassCallFails(c) ==
    /\ pc[c] \in {"latest", "repair"}
    /\ faults' = faults - 1
    /\ ~RepairDenied(c)

C28_PassFailureSwallowed ==
    [][\A c \in Clients :
         PassCallFails(c) =>
            /\ pc'[c] = AfterRepairPc(loc[c])
            /\ ret'[c] = ret[c]]_vars

(* C29: history(key, before, limit) with a limit returns at most limit
   entries, also when the cached orphan entry of the key is put in front of
   the mirror's versions. *)
C29_HistoryWithinLimit ==
    \A c \in Clients :
       (HistoryAnswered(c) /\ HistoryResult(c).limit # None) =>
          Len(HistoryResult(c).entries) <= The(HistoryResult(c).limit)

(* C30: A caller that pages history(key, cursor, limit) from no cursor,
   passing each returned cursor to the next call until none comes back,
   is given every version the key's mirror had at the first call, once
   each and newest first, possibly after the cached orphan entry that the
   first page may carry in front. While it pages, what it has been given is
   the mirror's versions from the newest down to the cursor, and the next
   page starts below the cursor. *)
\* The entries of the versions from..to of the mirror of k, newest first.
MirrorEntries(c, k, from, to) ==
    [i \in 1..(from - to + 1) |->
        entry_from_key_object(KeyData(k, from + 1 - i), config[c].codec)]

\* What call has been given is the versions top..to, after at most one
\* entry in front.
GivenDownTo(c, call, to) ==
    \E p \in 0..1 :
       /\ Len(call.seen) = p + (call.top - to + 1)
       /\ SubSeq(call.seen, p + 1, Len(call.seen)) = MirrorEntries(c, call.key, call.top, to)

PagesAnswered(c) ==
    /\ ret[c].query # None
    /\ The(ret[c].query).op = "history_pages"

LogEntriesAnswered(c) ==
    /\ ret[c].query # None
    /\ The(ret[c].query).op = "log_entries"
    /\ The(ret[c].query).kind = "Result"

LogVersionAnswered(c) ==
    /\ ret[c].query # None
    /\ The(ret[c].query).op = "get_log_version"

Examined(limit) ==
    IF limit = None \/ The(limit) >= Len(logVersions) THEN LogIds
    ELSE (Len(logVersions) + 1 - The(limit))..Len(logVersions)

HashMismatch(i) ==
    LogData(i).hash # hash_compute(LogEntryForHash(LogData(i).sequence, LogData(i).key,
                                                   LogData(i).value,
                                                   LogData(i).timestamp_ms,
                                                   LogData(i).previous_hash))

\* C32: verify_log_chain returns false whenever, among the entries it
\* examines, some entry's stored hash differs from the recomputed one or
\* some entry's previous_hash differs from the hash of the next older
\* entry, and, when it examines the whole log, whenever the oldest
\* entry's previous_hash is not the genesis sentinel.
C32_ChainRejectsBrokenLog ==
    [][\A c \in Clients :
          (ChainAnswered(c)' /\ nOps' < nOps /\ ret[c].query' # ret[c].query
              /\ "limit" \in DOMAIN The(ret[c].query').result)
          => LET answer == The(ret[c].query').result
                 ids == Examined(answer.limit)
             IN /\ (\E i \in ids : HashMismatch(i)) => ~answer.valid
                /\ (\E i \in ids :
                       i - 1 \in ids /\ LogData(i).previous_hash # LogData(i - 1).hash)
                   => ~answer.valid
                /\ (ids = LogIds /\ LogIds # {}
                        /\ LogData(1).previous_hash # hash_genesis)
                   => ~answer.valid]_vars

(* --------------------- C33: the order of listed keys ------------------ *)

\* C33: list_keys returns the key names in lexicographic order of the
\* names themselves, whatever keys are stored, keys one of which is a
\* proper prefix of another included.
C33_ListedInKeyNameOrder ==
    \A c \in Clients :
       ListAnswered(c) =>
          LET keys == The(ret[c].query).result.keys
          IN \A i, j \in 1..Len(keys) :
                i < j => BytesLess(KeyChars[keys[i]], KeyChars[keys[j]])

(* ------------------- C34: a failure while listing keys ---------------- *)

\* C34: a backend error in a read operation surfaces to its caller:
\* list_keys whose listing fails on some page raises the error, it does
\* not return a list, partial or empty, as if there were no more keys.
C34_ListFailureSurfaces ==
    [][\A c \in Clients :
          (pc[c] = "list" /\ pc'[c] = "idle" /\ faults' < faults)
          => The(ret[c].query').kind # "Result"]_vars

(* ------------------ C35: views made by with_codec, close -------------- *)

FailedOnClosedLoop(c) ==
    \/ ret[c].set # None /\ The(ret[c].set).kind = "RuntimeError"
    \/ ret[c].get # None /\ The(ret[c].get).kind = "RuntimeError"

SetFileAnswered(c) ==
    /\ fileRet[c].result # None
    /\ The(fileRet[c].result).op = "set_file"

\* C36: a set_file whose log write conflicts until the retry budget is
\* exhausted fails with MaxRetriesExceededError, and one set_file call makes
\* at most max_retries attempts to put the log, over all the attempts of
\* set_file and of the set it calls.
C36_SetFileRetryBudget ==
    /\ [](\A c \in Clients :
            (SetFileAnswered(c) /\ SetExhausted(c))
            => The(fileRet[c].result).outcome.kind = "MaxRetriesExceededError")
    /\ [](\A c \in Clients :
            (fileCall[c].op = "set_file" /\ InSet(c))
            => fileCall[c].attempt * max_retries + loc[c].attempt < max_retries)

(* -------------- C37: a mirror never goes back to an older entry ------- *)

\* C37: for every key the successive versions of its mirror carry strictly
\* increasing sequence numbers: no Phase-2 put and no repair put replaces
\* a mirror by an entry as old as, or older than, the one it holds, under
\* any interleaving of writers and repairers, cancelled calls and failed
\* puts.
C37_MirrorSequenceIncreases ==
    \A k \in Keys :
       \A j \in KeyIds(k) :
          j > 1 => KeyData(k, j).sequence > KeyData(k, j - 1).sequence

\* Two failures have happened, and the mirror of a key has two versions
\* while a third put on it, of a set or of a repair pass, was refused: some
\* client is past a commit whose entry the mirror does not and will not hold.
C37_Witness ==
    \E k \in Keys :
       /\ faults = 0
       /\ Len(keyVersions[k]) = 2
       /\ Len(logVersions) = 3
       /\ \A c \in Clients : pc[c] = "idle"
       /\ \A i \in LogIds : LogData(i).key = k
       /\ KeyData(k, 2).sequence # LogData(3).sequence

(* ----------------- C38: the retry loop of set is lock-free ------------ *)

\* The log has a version newer than the head c's attempt read in pre-flight.
HeadMovedOn(c) ==
    Len(logVersions) > (IF loc[c].prev_version_id = None THEN 0
                        ELSE The(loc[c].prev_version_id))

\* The log entries another writer than c committed.
Competing(c) ==
    Cardinality({i \in LogIds : LogData(i).value \notin UserValues(config[c].codec)})

\* C38: the conditional log put of an attempt is refused exactly when a
\* writer committed a log entry after the attempt's pre-flight read of the
\* log head, so of the writers racing on one head one commits; every
\* attempt a set has lost stands for a commit of a competitor made during
\* the call, and a set that exhausted its budget faced at least
\* max_retries of them: with 9 or fewer it does not exhaust it.
C38_LockFreeRetry ==
    /\ [][\A c \in Clients :
            (pc[c] = "put_log" /\ pc'[c] # "put_log" /\ faults' = faults)
            => /\ pc'[c] \in {"latest", "idle"} <=> HeadMovedOn(c)
               /\ pc'[c] = "put_key" <=> ~HeadMovedOn(c)
               /\ HeadMovedOn(c) =>
                     \A i \in LogIds :
                        (loc[c].prev_version_id = None \/ i > The(loc[c].prev_version_id))
                        => LogData(i).value \notin UserValues(config[c].codec)]_vars
    /\ [](\A c \in Clients :
            /\ InSet(c) => loc[c].attempt <= Competing(c)
            /\ SetExhausted(c) => Competing(c) >= max_retries)

\* Client A's only set lost nine attempts to nine commits of B and
\* committed with its tenth.
C38_Witness ==
    /\ pc["A"] = "put_key"
    /\ loc["A"].attempt = max_retries - 1
    /\ ret["A"].commits = 1
    /\ Competing("A") = max_retries - 1
    /\ Len(logVersions) = max_retries

(* ---------------- C39: concurrent delete_file calls ------------------- *)

IsTombstoneEntry(i) ==
    "deleted" \in DOMAIN LogData(i).value /\ LogData(i).value.deleted = TRUE

DeleteMarkers(path) ==
    {n \in 1..Len(fileVersions[path]) : "delete_marker" \in DOMAIN fileVersions[path][n]}

\* C39: delete_file never records the deletion of a file that is already
\* deleted: the log holds no two tombstones of a key without an active
\* entry of that key between them, the file object has no more delete
\* markers than the log has tombstones of it, and of two concurrent
\* delete_file calls on an active file at most one returns a tombstone.
C39_NoSecondTombstone ==
    /\ \A k \in FileKeys :
          \A i, j \in LogIds :
             (i < j /\ LogData(i).key = k /\ LogData(j).key = k
                /\ IsTombstoneEntry(i) /\ IsTombstoneEntry(j))
             => \E m \in (i + 1)..(j - 1) : LogData(m).key = k /\ ~IsTombstoneEntry(m)
    /\ \A k \in FileKeys :
          Cardinality(DeleteMarkers(file_s3_key_for_file(k))) <= 1

====
